---- MODULE Spec2Model ----
(***************************************************************************)
(* Real-estate investment analyzer: the financial engine of js/calcs.js    *)
(* (payment, amortization, pro forma, IRR, quantile) and the sensitivity   *)
(* grid and Monte Carlo projector of js/ui.js.                             *)
(*                                                                         *)
(* JavaScript numbers are modelled as IEEE-754 doubles: a sign, a 53-bit   *)
(* significand and a binary exponent, every +, -, * and / rounded to the   *)
(* nearest double with ties to even, together with NaN, +Infinity and      *)
(* -Infinity, and with null for an empty form field.  The exponent is      *)
(* unbounded (no overflow to Infinity, no subnormals) and zero has no      *)
(* sign.  Math.pow with an integer exponent is repeated squaring, every     *)
(* product rounded, so it may differ from the engine's in the last place.  *)
(***************************************************************************)
EXTENDS Integers, Sequences, FiniteSets, TLC

\* ------------------------------------------------------------------------
\* Every operation on numbers is entered through Call, which names the
\* operation and carries its arguments: Add(x, y) is Call("Add", <<x, y>>).
\* The public functions of the formula library are entered the same way.
\* ------------------------------------------------------------------------
RECURSIVE Call(_, _)

AddN(a, b) == Call("AddN", <<a, b>>)

SubN(a, b) == Call("SubN", <<a, b>>)

MulSmall(a, k) == Call("MulSmall", <<a, k>>)

MulN(a, b) == Call("MulN", <<a, b>>)

DivN(a, b) == Call("DivN", <<a, b>>)

ShiftLeft(a, k) == Call("ShiftLeft", <<a, k>>)

ShiftRight(a, k) == Call("ShiftRight", <<a, k>>)

LowBits(a, k) == Call("LowBits", <<a, k>>)

RoundN(s, a, e) == Call("RoundN", <<s, a, e>>)

FromInt(i) == Call("FromInt", <<i>>)

Add(x, y) == Call("Add", <<x, y>>)

Sub(x, y) == Call("Sub", <<x, y>>)

Mul(x, y) == Call("Mul", <<x, y>>)

Div(x, y) == Call("Div", <<x, y>>)

Cmp(x, y) == Call("Cmp", <<x, y>>)

Floor(x) == Call("Floor", <<x>>)

Round(x) == Call("Round", <<x>>)

Pow(x, k) == Call("Pow", <<x, k>>)

Dec(i, k) == Call("Dec", <<i, k>>)

toFixed(x, d) == Call("toFixed", <<x, d>>)

\* ------------------------------------------------------------------------
\* Natural numbers beyond the integers of the checker: little-endian
\* sequences of limbs of LimbBits bits, the most significant limb non-zero,
\* zero the empty sequence.  Carries are found by lookahead, not by a loop.
\* ------------------------------------------------------------------------
LimbBits == 14

Base == 2 ^ LimbBits

\* The number of bits of a double's significand
Precision == 53

\* The statements of a function run in order: v, once every value of vs is
\* there
After(vs, v) == CASE Len(vs) >= 0 -> v

Limb(a, i) == IF 1 <= i /\ i <= Len(a) THEN a[i] ELSE 0

MaxI(i, j) == IF i >= j THEN i ELSE j

MinI(i, j) == IF i <= j THEN i ELSE j

SgnI(i) == IF i > 0 THEN 1 ELSE IF i < 0 THEN -1 ELSE 0

AbsI(i) == IF i < 0 THEN -i ELSE i

MaxOf(S) == CHOOSE i \in S : \A j \in S : j <= i

\* a without its leading zero limbs
Trim(a) ==
  LET nz == {i \in 1..Len(a) : a[i] # 0}
  IN  IF nz = {} THEN <<>> ELSE SubSeq(a, 1, MaxOf(nz))

\* The limbs of an integer 0 <= k < 2^31, and the integer of at most three limbs
NatLimbs(k) == Trim(<<k % Base, (k \div Base) % Base, k \div (Base * Base)>>)

NatInt(a) == Limb(a, 1) + Base * Limb(a, 2) + Base * Base * Limb(a, 3)

CmpN(a, b) ==
  LET d == {i \in 1..MinI(Len(a), Len(b)) : a[i] # b[i]}
  IN  IF Len(a) # Len(b) THEN SgnI(Len(a) - Len(b))
      ELSE IF d = {} THEN 0
      ELSE SgnI(a[MaxOf(d)] - b[MaxOf(d)])

\* a + b: a carry enters limb i when a limb below overflows and every limb
\* between is full
AddNBody(a, b) ==
  LET k == MaxI(Len(a), Len(b)) + 1
      s == <<>> \o [i \in 1..k |-> Limb(a, i) + Limb(b, i)]
      c == [i \in 1..k |->
              IF \E j \in 1..i - 1 : s[j] >= Base /\ \A h \in j + 1..i - 1 : s[h] = Base - 1
                THEN 1 ELSE 0]
  IN  Trim(<<>> \o [i \in 1..k |-> (s[i] + c[i]) % Base])

\* a - b for a >= b: a borrow enters limb i when a limb below falls short and
\* every limb between is equal
SubNBody(a, b) ==
  LET c == [i \in 1..Len(a) |->
              IF \E j \in 1..i - 1 :
                   a[j] < Limb(b, j) /\ \A h \in j + 1..i - 1 : a[h] = Limb(b, h)
                THEN 1 ELSE 0]
  IN  Trim(<<>> \o [i \in 1..Len(a) |-> (a[i] - Limb(b, i) - c[i] + Base) % Base])

\* a * Base^k
ShiftUp(a, k) == IF Len(a) = 0 THEN <<>> ELSE [i \in 1..k |-> 0] \o a

\* a * k for a limb-sized k
MulSmallBody(a, k) ==
  AddN(<<>> \o [i \in 1..Len(a) |-> (a[i] * k) % Base],
       <<0>> \o [i \in 1..Len(a) |-> (a[i] * k) \div Base])

\* a * b for a and b of at most four limbs: the column sums, then their carries
MulNBody(a, b) ==
  LET k   == Len(a) + Len(b)
      col == <<>> \o [i \in 1..k |->
                 Limb(a, 1) * Limb(b, i) + Limb(a, 2) * Limb(b, i - 1)
                 + Limb(a, 3) * Limb(b, i - 2) + Limb(a, 4) * Limb(b, i - 3)]
  IN  AddN(AddN(<<>> \o [i \in 1..k |-> col[i] % Base],
                <<0>> \o [i \in 1..k |-> (col[i] \div Base) % Base]),
           <<0, 0>> \o [i \in 1..k |-> col[i] \div (Base * Base)])

\* The largest q with q * b <= r, for 0 <= r < Base * b and b's top limb at
\* least Base / 2
QDigit(r, b) ==
  IF CmpN(r, b) < 0 THEN 0
  ELSE LET L  == Len(b)
           rt == r[L] + Base * Limb(r, L + 1)
       IN  MaxOf({q \in rt \div (b[L] + 1)..MinI(Base - 1, rt \div b[L]) :
                    CmpN(MulSmall(b, q), r) <= 0})

\* Long division, one limb of the dividend per step: st.i limbs are left,
\* st.q is the quotient so far and st.rem the remainder
DivStep(a, b, st) ==
  IF st.i = 0 THEN st
  ELSE LET r == Trim(<<a[st.i]>> \o st.rem)
           q == QDigit(r, b)
       IN  [i |-> st.i - 1, q |-> <<q>> \o st.q, rem |-> SubN(r, MulSmall(b, q))]

\* 2^k steps
RECURSIVE DivRun(_, _, _, _)
DivRun(a, b, st, k) ==
  IF k = 0 THEN DivStep(a, b, st)
  ELSE IF st.i = 0 THEN st
  ELSE DivRun(a, b, DivRun(a, b, st, k - 1), k - 1)

\* <<floor(a / b), whether a remainder is left>>, for b # 0 and a of at most
\* sixteen limbs
DivNBody(a, b) ==
  LET k  == Base \div (b[Len(b)] + 1)
      a1 == MulSmall(a, k)
      b1 == MulSmall(b, k)
      st == DivRun(a1, b1, [i |-> Len(a1), q |-> <<>>, rem |-> <<>>], 4)
  IN  After(<<a1, b1>>, <<Trim(st.q), Len(st.rem) > 0>>)

BitsOf(v) == CHOOSE b \in 0..LimbBits : v < 2 ^ b /\ (b = 0 \/ v >= 2 ^ (b - 1))

\* The number of bits of a
BitLen(a) == IF Len(a) = 0 THEN 0 ELSE LimbBits * (Len(a) - 1) + BitsOf(a[Len(a)])

\* a * 2^k
ShiftLeftBody(a, k) == ShiftUp(MulSmall(a, 2 ^ (k % LimbBits)), k \div LimbBits)

\* floor(a / 2^k)
ShiftRightBody(a, k) ==
  LET q == k \div LimbBits
      j == k % LimbBits
      b == IF Len(a) > q THEN SubSeq(a, q + 1, Len(a)) ELSE <<>>
  IN  Trim(<<>> \o [i \in 1..Len(b) |->
                     (b[i] \div 2 ^ j) + (Limb(b, i + 1) % 2 ^ j) * 2 ^ (LimbBits - j)])

\* a mod 2^k
LowBitsBody(a, k) == SubN(a, ShiftLeft(ShiftRight(a, k), k))

\* ------------------------------------------------------------------------
\* Numbers: [t, s, m, e] with t the kind, s the sign, and for a finite
\* non-zero number the value s * m * 2^e with m of exactly Precision bits.
\* ------------------------------------------------------------------------
NaN == [t |-> "nan", s |-> 0, m |-> <<>>, e |-> 0]

Infinity == [t |-> "inf", s |-> 1, m |-> <<>>, e |-> 0]

NegInfinity == [t |-> "inf", s |-> -1, m |-> <<>>, e |-> 0]

Null == [t |-> "null", s |-> 0, m |-> <<>>, e |-> 0]

Zero == [t |-> "fin", s |-> 0, m |-> <<>>, e |-> 0]

\* The exponents of the largest double, (2^53 - 1) * 2^971, and of the
\* smallest, 2^-1074
MaxExponent == 971

MinExponent == -1074

\* The double nearest to s * a * 2^e, ties to the even significand: d low
\* bits are dropped, more of them below the smallest normal number, and a
\* result beyond the largest double is infinite
RoundNBody(s, a, e) ==
  LET Normal(u, g, x) ==
        IF Len(u) = 0 THEN Zero
        ELSE IF x > MaxExponent THEN (IF s > 0 THEN Infinity ELSE NegInfinity)
        ELSE [t |-> "fin", s |-> s, e |-> x,
              m |-> IF g >= 0 THEN ShiftLeft(u, g) ELSE ShiftRight(u, -g)]
      Rounded(d, u) ==
        After(<<d, u>>,
              Normal(u, Precision - BitLen(u),
                     e + (IF d <= 0 THEN 0 ELSE d) - (Precision - BitLen(u))))
      Dropped(d, q, c) ==
        Rounded(d, IF d <= 0 THEN a
                   ELSE IF c > 0 \/ (c = 0 /\ Limb(q, 1) % 2 = 1) THEN AddN(q, <<1>>) ELSE q)
      Drop(d) == Dropped(d, ShiftRight(a, d), CmpN(LowBits(a, d), ShiftLeft(<<1>>, d - 1)))
  IN  IF Len(a) = 0 THEN Zero
      ELSE Drop(MaxI(BitLen(a) - Precision, MinExponent - e))

FromIntBody(i) == RoundN(SgnI(i), NatLimbs(AbsI(i)), 0)

One == FromInt(1)

IsFinite(x) == x.t = "fin"

IsNaN(x) == x.t = "nan"

Neg(x) == IF x.t = "fin" \/ x.t = "inf" THEN [x EXCEPT !.s = -x.s] ELSE x

Abs(x) == IF x.t = "fin" \/ x.t = "inf" THEN [x EXCEPT !.s = AbsI(x.s)] ELSE x

\* -1, 0 or 1 as |x| is below, equal to or above |y|, both finite and non-zero
CmpMag(x, y) == IF x.e # y.e THEN SgnI(x.e - y.e) ELSE CmpN(x.m, y.m)

\* x + y for finite non-zero x and y with |x| >= |y|.  A y below a quarter of
\* the last place of x leaves x as it is.
AddMag(x, y) ==
  LET g == x.e - y.e
  IN  IF g > Precision + 3 THEN x
      ELSE IF x.s = y.s THEN RoundN(x.s, AddN(ShiftLeft(x.m, g), y.m), y.e)
      ELSE RoundN(x.s, SubN(ShiftLeft(x.m, g), y.m), y.e)

AddBody(x, y) ==
  IF x.t = "nan" \/ y.t = "nan" THEN NaN
  ELSE IF x.t = "inf" THEN (IF y.t = "inf" /\ y.s # x.s THEN NaN ELSE x)
  ELSE IF y.t = "inf" THEN y
  ELSE IF x.s = 0 THEN y
  ELSE IF y.s = 0 THEN x
  ELSE IF CmpMag(x, y) >= 0 THEN AddMag(x, y) ELSE AddMag(y, x)

SubBody(x, y) == Add(x, Neg(y))

MulBody(x, y) ==
  IF x.t = "nan" \/ y.t = "nan" THEN NaN
  ELSE IF x.t = "inf" \/ y.t = "inf"
    THEN (IF x.s * y.s = 0 THEN NaN
          ELSE IF x.s * y.s > 0 THEN Infinity ELSE NegInfinity)
  ELSE IF x.s = 0 \/ y.s = 0 THEN Zero
  ELSE RoundN(x.s * y.s, MulN(x.m, y.m), x.e + y.e)

\* The quotient of the significands to Precision + 3 bits and more, its last
\* bit set when the division leaves a remainder
DivBody(x, y) ==
  IF x.t = "nan" \/ y.t = "nan" THEN NaN
  ELSE IF x.t = "inf"
    THEN (IF y.t = "inf" THEN NaN
          ELSE IF x.s * (IF y.s < 0 THEN -1 ELSE 1) > 0 THEN Infinity ELSE NegInfinity)
  ELSE IF y.t = "inf" THEN Zero
  ELSE IF y.s = 0
    THEN (IF x.s = 0 THEN NaN ELSE IF x.s > 0 THEN Infinity ELSE NegInfinity)
  ELSE IF x.s = 0 THEN Zero
  ELSE LET qr == DivN(ShiftLeft(x.m, Precision + 3), y.m)
           q2 == AddN(MulSmall(qr[1], 2), IF qr[2] THEN <<1>> ELSE <<>>)
       IN  After(<<qr, q2>>, RoundN(x.s * y.s, q2, x.e - y.e - Precision - 4))

\* -1, 0 or 1 as x is below, equal to or above y; neither is NaN
CmpBody(x, y) ==
  IF x.t = "inf" \/ y.t = "inf"
    THEN SgnI((IF x.t = "inf" THEN 2 * x.s ELSE x.s) - (IF y.t = "inf" THEN 2 * y.s ELSE y.s))
  ELSE IF x.s # y.s THEN SgnI(x.s - y.s)
  ELSE IF x.s = 0 THEN 0
  ELSE x.s * CmpMag(x, y)

\* The comparisons of JavaScript: false when either side is NaN
Lt(x, y) == x.t # "nan" /\ y.t # "nan" /\ Cmp(x, y) < 0

Le(x, y) == x.t # "nan" /\ y.t # "nan" /\ Cmp(x, y) <= 0

Gt(x, y) == Lt(y, x)

Ge(x, y) == Le(y, x)

\* Math.max and Math.min: NaN when either argument is NaN
Max(x, y) == IF x.t = "nan" \/ y.t = "nan" THEN NaN ELSE IF Cmp(x, y) >= 0 THEN x ELSE y

Min(x, y) == IF x.t = "nan" \/ y.t = "nan" THEN NaN ELSE IF Cmp(x, y) <= 0 THEN x ELSE y

\* The integer part of |x| and whether |x| has a fraction, x finite
IntPart(x) == IF x.e >= 0 THEN ShiftLeft(x.m, x.e) ELSE ShiftRight(x.m, -x.e)

HasFrac(x) == x.e < 0 /\ Len(LowBits(x.m, -x.e)) > 0

\* Math.floor
FloorBody(x) ==
  IF x.t # "fin" \/ x.s = 0 \/ x.e >= 0 THEN x
  ELSE RoundN(x.s, IF x.s < 0 /\ HasFrac(x) THEN AddN(IntPart(x), <<1>>) ELSE IntPart(x), 0)

\* Math.round: the nearest integer, a tie toward +Infinity
RoundBody(x) ==
  IF x.t # "fin" \/ x.s = 0 \/ x.e >= 0 THEN x
  ELSE LET c  == CmpN(LowBits(x.m, -x.e), ShiftLeft(<<1>>, -x.e - 1))
           up == IF x.s > 0 THEN c >= 0 ELSE c > 0
       IN  RoundN(x.s, IF up THEN AddN(IntPart(x), <<1>>) ELSE IntPart(x), 0)

\* The integer an integral finite Number holds
IntOf(x) == IF x.t # "fin" THEN 0 ELSE x.s * NatInt(IntPart(x))

\* One step of raising to a power by squaring: st.k is the exponent left,
\* st.b the base squared so far and st.acc the product of the squares taken
PowStep(st) ==
  IF st.k = 0 THEN st
  ELSE [k   |-> st.k \div 2,
        b   |-> IF st.k = 1 THEN st.b ELSE Mul(st.b, st.b),
        acc |-> IF st.k % 2 = 0 THEN st.acc
                ELSE Mul(st.acc, st.b)]

\* 2^j steps
RECURSIVE PowRun(_, _)
PowRun(st, j) ==
  IF j = 0 THEN PowStep(st)
  ELSE IF st.k = 0 THEN st
  ELSE PowRun(PowRun(st, j - 1), j - 1)

\* Math.pow(x, k) for an integer 0 <= k < 2^32, every product rounded:
\* pow(x, 0) is 1 for every x, NaN included
PowBody(x, k) == PowRun([k |-> k, b |-> x, acc |-> One], 5).acc

\* The decimal literal i / 10^k
DecBody(i, k) == Div(FromInt(i), Pow(FromInt(10), k))

\* ------------------------------------------------------------------------
\* js/calcs.js: the formula library
\* ------------------------------------------------------------------------

\* Number(v): null converts to 0
ToNumber(v) == IF v.t = "null" THEN Zero ELSE v

\* n(v): a finite number, or 0 for anything else (null, NaN, Infinity)
n(v) == IF IsFinite(v) THEN v ELSE Zero

\* Number(v) || d: d replaces 0 and NaN
NumberOr(v, d) == IF ToNumber(v) = Zero \/ IsNaN(ToNumber(v)) THEN d ELSE ToNumber(v)

clamp(v, lo, hi) == Min(hi, Max(lo, v))

\* The balance at or below which a schedule stops
BalanceEps == Dec(5, 3)

\* r, the monthly rate of monthlyPayment and amortSchedule
MonthlyRate(annualRatePct) == Div(Div(n(annualRatePct), FromInt(100)), FromInt(12))

\* N, the number of monthly payments
TotalMonths(termYears) == IntOf(Round(Mul(n(termYears), FromInt(12))))

\* monthlyPayment without its branch for a rate of zero
monthlyPaymentAnnuity(loanAmount, annualRatePct, termYears) ==
  LET P  == n(loanAmount)
      r  == MonthlyRate(annualRatePct)
      NN == TotalMonths(termYears)
      growth == Pow(Add(One, r), NN)
  IN  After(<<P, r, NN>>,
        IF Le(P, Zero) \/ NN <= 0 THEN Zero
        ELSE After(<<growth>>, Div(Mul(P, Mul(r, growth)), Sub(growth, One))))

monthlyPayment(loanAmount, annualRatePct, termYears) ==
  LET P  == n(loanAmount)
      r  == MonthlyRate(annualRatePct)
      NN == TotalMonths(termYears)
      growth == Pow(Add(One, r), NN)
  IN  After(<<P, r, NN>>,
        IF Le(P, Zero) \/ NN <= 0 THEN Zero
        ELSE IF r = Zero THEN Div(P, FromInt(NN))
        ELSE After(<<growth>>, Div(Mul(P, Mul(r, growth)), Sub(growth, One))))

\* An iteration that records the whole payment as principal
AmortStepAllPrincipal(NN, pay, r, st) ==
  IF st.brk \/ st.m > NN THEN [st EXCEPT !.brk = TRUE]
  ELSE LET interest  == Mul(st.bal, r)
           principal == Max(Zero, Sub(pay, interest))
           bal       == Max(Zero, Sub(st.bal, principal))
       IN  After(<<interest, principal, bal>>,
           [m   |-> st.m + 1,
            bal |-> bal,
            out |-> Append(st.out, [month |-> st.m, payment |-> pay, principal |-> pay,
                                    interest |-> interest, balance |-> bal]),
            brk |-> Le(bal, BalanceEps)])

\* One iteration of the loop of amortSchedule: st.m is the month, st.bal the
\* balance, st.out the rows pushed and st.brk whether the loop has left
AmortStep(NN, pay, r, st) ==
  IF st.brk \/ st.m > NN THEN [st EXCEPT !.brk = TRUE]
  ELSE LET interest  == Mul(st.bal, r)
           principal == Max(Zero, Sub(pay, interest))
           bal       == Max(Zero, Sub(st.bal, principal))
       IN  After(<<interest, principal, bal>>,
           [m   |-> st.m + 1,
            bal |-> bal,
            out |-> Append(st.out, [month |-> st.m, payment |-> pay, principal |-> principal,
                                    interest |-> interest, balance |-> bal]),
            brk |-> Le(bal, BalanceEps)])

\* 2^k iterations
RECURSIVE AmortRun(_, _, _, _, _)
AmortRun(NN, pay, r, st, k) ==
  IF k = 0 THEN AmortStep(NN, pay, r, st)
  ELSE IF st.brk THEN st
  ELSE AmortRun(NN, pay, r, AmortRun(NN, pay, r, st, k - 1), k - 1)

\* The least k with 2^k > i
RECURSIVE Log2(_)
Log2(i) == IF i <= 0 THEN 0 ELSE 1 + Log2(i \div 2)

amortSchedule(loanAmount, annualRatePct, termYears) ==
  LET P0  == n(loanAmount)
      r   == MonthlyRate(annualRatePct)
      NN  == TotalMonths(termYears)
      pay == Call("monthlyPayment", <<P0, annualRatePct, termYears>>)
  IN  After(<<P0, r, NN, pay>>,
        AmortRun(NN, pay, r, [m |-> 1, bal |-> P0, out |-> <<>>, brk |-> FALSE],
                 Log2(NN)).out)

\* computeLoanAmount without its test of the explicit amount
computeLoanAmountAuto(st) ==
  Mul(n(st.purchasePrice),
      Sub(One, clamp(Div(n(st.downPaymentPct), FromInt(100)), Zero, One)))

computeLoanAmount(st) ==
  IF st.loanAmount # Null /\ IsFinite(ToNumber(st.loanAmount))
    THEN n(st.loanAmount)
    ELSE Mul(n(st.purchasePrice),
             Sub(One, clamp(Div(n(st.downPaymentPct), FromInt(100)), Zero, One)))

totalCashInvested(st) ==
  LET purchase == n(st.purchasePrice)
      down     == Sub(purchase, Call("computeLoanAmount", <<st>>))
      points   == Mul(Call("computeLoanAmount", <<st>>), Div(n(st.pointsPct), FromInt(100)))
  IN  After(<<down, points>>,
        Add(Add(Add(Add(down, n(st.closingCosts)), n(st.rehabCosts)), n(st.loanFees)), points))

RECURSIVE SumFrom(_, _, _)
SumFrom(lines, i, a) ==
  IF i > Len(lines) THEN a ELSE SumFrom(lines, i + 1, Add(a, n(lines[i].amount)))

sumLines(lines) == SumFrom(lines, 1, Zero)

\* A ratio without its guard
Quotient(num, den) == Div(num, den)

\* The guarded ratios of proformaAnnual: num / den when den > 0, otherwise 0
\* A ratio that is guarded against a denominator of 0 only
RatioNonZero(num, den) == IF den = Zero THEN Zero ELSE Div(num, den)

Ratio(num, den) == IF Gt(den, Zero) THEN Div(num, den) ELSE Zero

\* A cap of 4 % on the percent-of-income buckets
BucketCapLow == Dec(4, 2)

\* A cap of 100 % on the percent-of-income buckets
BucketCapWhole == One

\* The upper clamp of the percent-of-income buckets
BucketCap == Dec(9, 1)

proformaAnnual(st) ==
  LET rent  == Mul(n(st.rentMonthly), FromInt(12))
      gsi   == Add(rent, Mul(Call("sumLines", <<st.otherIncomeLines>>), FromInt(12)))
      vacancy == Mul(gsi, clamp(Div(n(st.vacancyPct), FromInt(100)), Zero, BucketCap))
      egi   == Sub(gsi, vacancy)
      taxes == n(st.propertyTaxesAnnual)
      ins   == n(st.insuranceAnnual)
      hoa   == Mul(n(st.hoaMonthly), FromInt(12))
      util  == Mul(n(st.utilitiesMonthly), FromInt(12))
      mgmt  == Mul(gsi, clamp(Div(n(st.managementPct), FromInt(100)), Zero, BucketCap))
      maint == Mul(gsi, clamp(Div(n(st.maintenancePct), FromInt(100)), Zero, BucketCap))
      capex == Mul(gsi, clamp(Div(n(st.capexPct), FromInt(100)), Zero, BucketCap))
      otherExp == Mul(Call("sumLines", <<st.otherExpenseLines>>), FromInt(12))
      opex  == Add(Add(Add(Add(Add(Add(Add(taxes, ins), hoa), util), mgmt), maint), capex), otherExp)
      noi   == Sub(egi, opex)
      loan  == Call("computeLoanAmount", <<st>>)
      ds    == Mul(Call("monthlyPayment", <<loan, n(st.interestRate), n(st.termYears)>>),
                   FromInt(12))
      cashflow == Sub(noi, ds)
      invested == Call("totalCashInvested", <<st>>)
  IN  After(<<gsi, vacancy, egi, hoa, util, mgmt, maint, capex, otherExp, opex, noi,
              loan, ds, cashflow, invested>>,
      [gsi |-> gsi, vacancy |-> vacancy, egi |-> egi,
       taxes |-> taxes, ins |-> ins, hoa |-> hoa, util |-> util,
       mgmt |-> mgmt, maint |-> maint, capex |-> capex, otherExp |-> otherExp,
       opex |-> opex, noi |-> noi, ds |-> ds, cashflow |-> cashflow,
       capRate |-> Ratio(noi, n(st.purchasePrice)),
       coc |-> Ratio(cashflow, invested),
       dscr |-> Ratio(noi, ds),
       breakevenOcc |-> Ratio(Add(opex, ds), gsi)])

\* sched[Math.min(months, sched.length) - 1]?.balance ?? 0: an index that is
\* not that of a row reads undefined
BalanceAfter(sched, months) ==
  LET k == Min(months, FromInt(Len(sched)))
  IN  IF IsFinite(k) /\ ~HasFrac(k) /\ IntOf(k) >= 1 THEN sched[IntOf(k)].balance ELSE Zero

flipResults(st) ==
  LET sale     == n(st.flipResalePrice)
      months   == n(st.flipMonthsHeld)
      purchase == n(st.purchasePrice)
      closing  == n(st.closingCosts)
      rehab    == n(st.rehabCosts)
      Return(holding, selling, bal, totalOut, netProceeds, profit2) ==
        After(<<holding, selling, bal, totalOut, netProceeds, profit2>>,
        [sale |-> sale, months |-> months, holding |-> holding, selling |-> selling,
         loanBalance |-> bal, totalOut |-> totalOut, netProceeds |-> netProceeds,
         profit |-> profit2,
         roi |-> IF Gt(totalOut, Zero) THEN Div(profit2, totalOut) ELSE Zero])
      Profit(holding, selling, bal, totalOut, netProceeds) ==
        Return(holding, selling, bal, totalOut, netProceeds, Sub(netProceeds, totalOut))
      Payoff(loan, holding, selling, bal) ==
        Profit(holding, selling, bal,
               Add(Add(Add(Add(Add(Sub(purchase, loan), closing), rehab), n(st.loanFees)),
                       Div(Mul(loan, n(st.pointsPct)), FromInt(100))), holding),
               Sub(Sub(sale, selling), bal))
      Loan(loan, holding, selling) ==
        Payoff(loan, holding, selling,
               IF Le(months, Zero) THEN loan
               ELSE BalanceAfter(Call("amortSchedule",
                                      <<loan, n(st.interestRate), n(st.termYears)>>), months))
  IN  Loan(Call("computeLoanAmount", <<st>>),
           Mul(n(st.flipHoldingCostsMonthly), months),
           Add(Mul(sale, clamp(Div(n(st.sellingCostPct), FromInt(100)), Zero, Dec(25, 2))),
               n(st.flipExtraSellingCosts)))

brrrrResults(st) ==
  LET appraised == IF n(st.afterRepairValue) = Zero THEN n(st.purchasePrice)
                   ELSE n(st.afterRepairValue)
      ltv      == clamp(Div(n(st.brrrrRefiLtvPct), FromInt(100)), Zero, One)
      newLoan  == Mul(appraised, ltv)
      origLoan == Call("computeLoanAmount", <<st>>)
      payoff   == origLoan
      cashOut  == Max(Zero, Sub(Sub(newLoan, payoff), n(st.brrrrRefiCosts)))
      invested == Call("totalCashInvested", <<st>>)
      cashLeftIn == Sub(invested, cashOut)
      newPmt   == Mul(Call("monthlyPayment",
                           <<newLoan, n(st.brrrrRefiRate), n(st.brrrrRefiTermYears)>>),
                      FromInt(12))
      pf       == Call("proformaAnnual", <<st>>)
      cashflowAfterRefi == Sub(pf.noi, newPmt)
  IN  After(<<ltv, newLoan, origLoan, cashOut, invested, cashLeftIn, newPmt, pf,
              cashflowAfterRefi>>,
      [appraised |-> appraised, newLoan |-> newLoan, payoff |-> payoff, cashOut |-> cashOut,
       cashLeftIn |-> cashLeftIn, newPmt |-> newPmt, cashflowAfterRefi |-> cashflowAfterRefi,
       cocAfterRefi |-> IF Gt(cashLeftIn, Zero) THEN Div(cashflowAfterRefi, cashLeftIn)
                        ELSE Zero])

\* x.toFixed(d) for d in 0..2: the kind of x ("NaN" and "Infinity" print as
\* such), the sign it prints and the natural number its digits spell, |x| * 10^d
\* rounded to the nearest natural with a tie upward
toFixedBody(x, d) ==
  [t      |-> x.t,
   neg    |-> x.s < 0,
   digits |-> IF x.s = 0 THEN <<>>
              ELSE IF x.e >= 0 THEN ShiftLeft(MulSmall(x.m, 10 ^ d), x.e)
              ELSE ShiftRight(AddN(MulSmall(x.m, 2 * 10 ^ d), ShiftLeft(<<1>>, -x.e)), 1 - x.e)]

\* pct(v): n(v).toFixed(2) + "%"
pct(v) == toFixed(n(v), 2)

\* ------------------------------------------------------------------------
\* js/calcs.js: irr, one loop iteration per step
\* ------------------------------------------------------------------------
maxIter == 80

bisectIter == 120

\* A tolerance of a tenth
epsCoarse == Dec(1, 1)

eps == Dec(1, 7)

DerivEps == Dec(1, 12)

StepEps == Dec(1, 10)

NewtonStart == Dec(1, 1)

BisectLo == Dec(-95, 2)

BisectHi == FromInt(5)

\* The loop of npv: st.t is the period and st.s the sum
RECURSIVE NpvFrom(_, _, _)
NpvFrom(cf, r, st) ==
  IF st.t >= Len(cf) THEN st.s
  ELSE NpvFrom(cf, r, [t |-> st.t + 1,
                       s |-> Add(st.s, Div(cf[st.t + 1], Pow(Add(One, r), st.t)))])

npv(cf, r) == NpvFrom(cf, r, [t |-> 0, s |-> Zero])

RECURSIVE DnpvFrom(_, _, _)
DnpvFrom(cf, r, st) ==
  IF st.t >= Len(cf) THEN st.s
  ELSE DnpvFrom(cf, r, [t |-> st.t + 1,
                        s |-> Add(st.s, Div(Mul(FromInt(-st.t), cf[st.t + 1]),
                                            Pow(Add(One, r), st.t + 1)))])

dnpv(cf, r) == DnpvFrom(cf, r, [t |-> 1, s |-> Zero])

IrrStart ==
  [pc |-> "newton", i |-> 0, r |-> NewtonStart, lo |-> BisectLo, hi |-> BisectHi,
   flo |-> Zero, fhi |-> Zero, ret |-> NaN]

IrrDone(st, v) == [st EXCEPT !.pc = "done", !.ret = v]

\* One iteration of the Newton loop
NewtonStep(cf, st) ==
  IF st.i >= maxIter THEN [st EXCEPT !.pc = "bracket"]
  ELSE LET f  == Call("npv", <<cf, st.r>>)
           df == Call("dnpv", <<cf, st.r>>)
           nr == Sub(st.r, Div(f, df))
       IN  IF After(<<f, df>>, Lt(Abs(f), eps)) THEN IrrDone(st, st.r)
           ELSE IF Lt(Abs(df), DerivEps) THEN [st EXCEPT !.pc = "bracket"]
           ELSE IF After(<<nr>>, ~IsFinite(nr)) THEN [st EXCEPT !.pc = "bracket"]
           ELSE IF Lt(Abs(Sub(nr, st.r)), StepEps) THEN IrrDone(st, nr)
           ELSE [st EXCEPT !.r = nr, !.i = st.i + 1]

\* The bracket test before the bisection loop
BracketStep(cf, st) ==
  LET flo == Call("npv", <<cf, BisectLo>>)
      fhi == Call("npv", <<cf, BisectHi>>)
  IN  IF After(<<flo, fhi>>, Gt(Mul(flo, fhi), Zero)) THEN IrrDone(st, NaN)
      ELSE [st EXCEPT !.pc = "bisect", !.i = 0, !.lo = BisectLo, !.hi = BisectHi,
                      !.flo = flo, !.fhi = fhi]

\* One iteration of the bisection loop
BisectStep(cf, st) ==
  LET mid  == Div(Add(st.lo, st.hi), FromInt(2))
      fmid == Call("npv", <<cf, mid>>)
  IN  IF After(<<mid>>, st.i >= bisectIter) THEN IrrDone(st, mid)
      ELSE IF After(<<fmid>>, Lt(Abs(fmid), eps)) THEN IrrDone(st, mid)
      ELSE IF Lt(Mul(st.flo, fmid), Zero)
        THEN [st EXCEPT !.hi = mid, !.fhi = fmid, !.i = st.i + 1]
        ELSE [st EXCEPT !.lo = mid, !.flo = fmid, !.i = st.i + 1]

IrrStep(cf, st) ==
  IF st.pc = "newton" THEN NewtonStep(cf, st)
  ELSE IF st.pc = "bracket" THEN BracketStep(cf, st)
  ELSE IF st.pc = "bisect" THEN BisectStep(cf, st)
  ELSE st

\* 2^k iterations
RECURSIVE IrrRun(_, _, _)
IrrRun(cf, st, k) ==
  IF k = 0 THEN Call("IrrStep", <<cf, st>>)
  ELSE IF st.pc = "done" THEN st
  ELSE IrrRun(cf, IrrRun(cf, st, k - 1), k - 1)

\* 2^8 iterations end both loops: maxIter + bisectIter + 3 of them are needed
irr(cf) == IrrRun(cf, IrrStart, 8).ret

quantile(sorted, q) ==
  IF Len(sorted) = 0 THEN NaN
  ELSE LET p == Mul(FromInt(Len(sorted) - 1), q)
           i == IntOf(Floor(p))
           f == Sub(p, Floor(p))
       IN  IF After(<<p, i, f>>, i + 1 >= Len(sorted)) THEN sorted[i + 1]
           ELSE Add(Mul(sorted[i + 1], Sub(One, f)), Mul(sorted[i + 2], f))

\* ------------------------------------------------------------------------
\* js/ui.js: renderSensitivity
\* ------------------------------------------------------------------------
\* size / 2 rounded up
SensCenterUp(size) == IntOf(Floor(Div(Add(size, One), FromInt(2))))

\* center, the index from 0 of the middle row and column
SensCenter(size) == IntOf(Floor(Div(size, FromInt(2))))

\* The cell of row r and column c, both from 0
SensCell(st, rentDeltaPct, vacDeltaPP, size, r, c) ==
  LET center   == SensCenter(size)
      baseRent == NumberOr(st.rentMonthly, Zero)
      baseVac  == NumberOr(st.vacancyPct, Zero)
      rentAdj  == Mul(FromInt(r - center), rentDeltaPct)
      rent     == Mul(baseRent, Add(One, Div(rentAdj, FromInt(100))))
      vac      == Add(baseVac, Mul(FromInt(c - center), vacDeltaPP))
      s2       == [st EXCEPT !.rentMonthly = rent, !.vacancyPct = vac]
      pf       == Call("proformaAnnual", <<s2>>)
  IN  After(<<center, rentAdj, rent, vac, pf>>, pct(Mul(pf.coc, FromInt(100))))

\* The table written to #sensTable, for a whole size: the vacancy of every
\* column, the rent adjustment of every row and the cells
renderSensitivity(st, rentDeltaPct, vacDeltaPP, size) ==
  LET center  == SensCenter(size)
      k       == IntOf(size)
      baseVac == NumberOr(st.vacancyPct, Zero)
  IN  [size   |-> k,
       center |-> center,
       header |-> <<>> \o [i \in 1..k |->
                    toFixed(Add(baseVac, Mul(FromInt(i - 1 - center), vacDeltaPP)), 1)],
       labels |-> <<>> \o [r \in 1..k |->
                    [plus |-> Ge(Mul(FromInt(r - 1 - center), rentDeltaPct), Zero),
                     text |-> toFixed(Mul(FromInt(r - 1 - center), rentDeltaPct), 0)]],
       cells  |-> <<>> \o [r \in 1..k |-> <<>> \o [c \in 1..k |->
                    Call("SensCell", <<st, rentDeltaPct, vacDeltaPP, size, r - 1, c - 1>>)]]]

\* ------------------------------------------------------------------------
\* js/ui.js: runMonteCarlo, one trial per step
\* ------------------------------------------------------------------------
\* The defaults of the exit cap rate and of the selling cost, in percent
DefaultExitCap == Dec(65, 1)

DefaultSellPct == FromInt(7)

\* A projection that lets the purchase price grow with the rent
ProjectedDealGrowingPrice(st, rentMult, expMult, vac) ==
  [st EXCEPT
     !.purchasePrice = Mul(NumberOr(st.purchasePrice, Zero), rentMult),
     !.rentMonthly = Mul(NumberOr(st.rentMonthly, Zero), rentMult),
     !.vacancyPct = Mul(vac, FromInt(100)),
     !.propertyTaxesAnnual = Mul(NumberOr(st.propertyTaxesAnnual, Zero), expMult),
     !.insuranceAnnual = Mul(NumberOr(st.insuranceAnnual, Zero), expMult),
     !.hoaMonthly = Mul(NumberOr(st.hoaMonthly, Zero), expMult),
     !.utilitiesMonthly = Mul(NumberOr(st.utilitiesMonthly, Zero), expMult),
     !.otherExpenseLines = <<>> \o [i \in 1..Len(st.otherExpenseLines) |->
        [st.otherExpenseLines[i] EXCEPT !.amount = Mul(NumberOr(@, Zero), expMult)]],
     !.otherIncomeLines = <<>> \o [i \in 1..Len(st.otherIncomeLines) |->
        [st.otherIncomeLines[i] EXCEPT !.amount = Mul(NumberOr(@, Zero), rentMult)]]]

\* The deal of a projection year: rent and income lines times rentMult, the
\* expenses times expMult, the vacancy drawn for the trial
ProjectedDeal(st, rentMult, expMult, vac) ==
  [st EXCEPT
     !.rentMonthly = Mul(NumberOr(st.rentMonthly, Zero), rentMult),
     !.vacancyPct = Mul(vac, FromInt(100)),
     !.propertyTaxesAnnual = Mul(NumberOr(st.propertyTaxesAnnual, Zero), expMult),
     !.insuranceAnnual = Mul(NumberOr(st.insuranceAnnual, Zero), expMult),
     !.hoaMonthly = Mul(NumberOr(st.hoaMonthly, Zero), expMult),
     !.utilitiesMonthly = Mul(NumberOr(st.utilitiesMonthly, Zero), expMult),
     !.otherExpenseLines = <<>> \o [i \in 1..Len(st.otherExpenseLines) |->
        [st.otherExpenseLines[i] EXCEPT !.amount = Mul(NumberOr(@, Zero), expMult)]],
     !.otherIncomeLines = <<>> \o [i \in 1..Len(st.otherIncomeLines) |->
        [st.otherIncomeLines[i] EXCEPT !.amount = Mul(NumberOr(@, Zero), rentMult)]]]

\* The pro forma of projection year y
YearProforma(st, rentG, expG, vac, y) ==
  Call("proformaAnnual",
       <<ProjectedDeal(st, Pow(Add(One, rentG), y - 1), Pow(Add(One, expG), y - 1), vac)>>)

\* The loop over the years: cfs holds -invested and the cash flow of every
\* year before year Len(cfs)
RECURSIVE YearlyCashflows(_, _, _, _, _, _)
YearlyCashflows(st, rentG, expG, vac, years, cfs) ==
  IF Len(cfs) > years THEN cfs
  ELSE YearlyCashflows(st, rentG, expG, vac, years,
         Append(cfs, LET pf == YearProforma(st, rentG, expG, vac, Len(cfs))
                     IN  Sub(pf.noi, pf.ds)))

\* The balance of the final row, whatever the horizon
PayoffBalanceFinalRow(sched, years) ==
  IF Len(sched) >= 1 THEN sched[Len(sched)].balance ELSE Zero

\* sched[Math.min(years * 12, sched.length) - 1]?.balance ?? 0
PayoffBalance(sched, years) ==
  IF MinI(years * 12, Len(sched)) >= 1 THEN sched[MinI(years * 12, Len(sched))].balance
  ELSE Zero

SalePrice(st, exitMethod, rentG, expG, appr, vac, years) ==
  IF exitMethod = "exitcap"
    THEN Div(YearProforma(st, rentG, expG, vac, years).noi,
             clamp(Div(NumberOr(st.exitCapRate, DefaultExitCap), FromInt(100)),
                   Dec(1, 2), Dec(25, 2)))
    ELSE Mul(NumberOr(st.purchasePrice, Zero), Pow(Add(One, appr), years))

\* A trial that appends the net sale proceeds as a period of their own
TrialSaleAsPeriod(run, st, z) ==
  LET rentG == Div(Add(run.dist.rent.mean, Mul(run.dist.rent.std, z[1])), FromInt(100))
      expG  == Div(Add(run.dist.exp.mean, Mul(run.dist.exp.std, z[2])), FromInt(100))
      appr  == Div(Add(run.dist.appr.mean, Mul(run.dist.appr.std, z[3])), FromInt(100))
      vac   == clamp(Div(Add(run.dist.vac.mean, Mul(run.dist.vac.std, z[4])), FromInt(100)),
                     Zero, Dec(5, 1))
      flows == Call("YearlyCashflows", <<st, rentG, expG, vac, run.years, <<Neg(run.invested)>>>>)
      payoffBal == PayoffBalance(run.sched, run.years)
      salePrice == Call("SalePrice", <<st, run.exitMethod, rentG, expG, appr, vac, run.years>>)
      sellPct   == clamp(Div(NumberOr(st.sellingCostPct, DefaultSellPct), FromInt(100)),
                         Zero, Dec(25, 2))
      netSale   == Sub(Mul(salePrice, Sub(One, sellPct)), payoffBal)
      cashflows == Append(flows, netSale)
  IN  After(<<rentG, expG, appr, vac, flows, payoffBal, salePrice, sellPct, netSale, cashflows>>,
      [rentG |-> rentG, expG |-> expG, appr |-> appr, vac |-> vac,
       cashflows |-> cashflows, payoffBal |-> payoffBal, salePrice |-> salePrice,
       netSale |-> netSale, r |-> Call("irr", <<cashflows>>)])

\* The body of the loop over the trials, z the four values randn returns
Trial(run, st, z) ==
  LET rentG == Div(Add(run.dist.rent.mean, Mul(run.dist.rent.std, z[1])), FromInt(100))
      expG  == Div(Add(run.dist.exp.mean, Mul(run.dist.exp.std, z[2])), FromInt(100))
      appr  == Div(Add(run.dist.appr.mean, Mul(run.dist.appr.std, z[3])), FromInt(100))
      vac   == clamp(Div(Add(run.dist.vac.mean, Mul(run.dist.vac.std, z[4])), FromInt(100)),
                     Zero, Dec(5, 1))
      flows == Call("YearlyCashflows", <<st, rentG, expG, vac, run.years, <<Neg(run.invested)>>>>)
      payoffBal == PayoffBalance(run.sched, run.years)
      salePrice == Call("SalePrice", <<st, run.exitMethod, rentG, expG, appr, vac, run.years>>)
      sellPct   == clamp(Div(NumberOr(st.sellingCostPct, DefaultSellPct), FromInt(100)),
                         Zero, Dec(25, 2))
      netSale   == Sub(Mul(salePrice, Sub(One, sellPct)), payoffBal)
      cashflows == [flows EXCEPT ![Len(flows)] = Add(@, netSale)]
  IN  After(<<rentG, expG, appr, vac, flows, payoffBal, salePrice, sellPct, netSale, cashflows>>,
      [rentG |-> rentG, expG |-> expG, appr |-> appr, vac |-> vac,
       cashflows |-> cashflows, payoffBal |-> payoffBal, salePrice |-> salePrice,
       netSale |-> netSale, r |-> Call("irr", <<cashflows>>)])

\* list.sort((a, b) => a - b): x goes before the first element above it
RECURSIVE InsertSorted(_, _, _)
InsertSorted(sorted, x, i) ==
  IF i > Len(sorted) THEN Append(sorted, x)
  ELSE IF Gt(sorted[i], x) THEN SubSeq(sorted, 1, i - 1) \o <<x>> \o SubSeq(sorted, i, Len(sorted))
  ELSE InsertSorted(sorted, x, i + 1)

RECURSIVE SortFrom(_, _, _)
SortFrom(list, i, sorted) ==
  IF i > Len(list) THEN sorted ELSE SortFrom(list, i + 1, InsertSorted(sorted, list[i], 1))

SortNumbers(list) == SortFrom(list, 1, <<>>)

\* list.reduce((a, x) => a + x, 0)
RECURSIVE SumList(_, _, _)
SumList(list, i, a) == IF i > Len(list) THEN a ELSE SumList(list, i + 1, Add(a, list[i]))

\* res, from the sorted lists
MonteCarloResult(irrList, endEquityList) ==
  [irr_p10  |-> Call("quantile", <<irrList, Dec(10, 2)>>),
   irr_p50  |-> Call("quantile", <<irrList, Dec(50, 2)>>),
   irr_p90  |-> Call("quantile", <<irrList, Dec(90, 2)>>),
   irr_mean |-> Div(SumList(irrList, 1, Zero),
                    FromInt(IF Len(irrList) = 0 THEN 1 ELSE Len(irrList))),
   eq_p10   |-> Call("quantile", <<endEquityList, Dec(10, 2)>>),
   eq_p50   |-> Call("quantile", <<endEquityList, Dec(50, 2)>>),
   eq_p90   |-> Call("quantile", <<endEquityList, Dec(90, 2)>>)]

\* No trial has run, and no result is there
NoTrial ==
  [rentG |-> Zero, expG |-> Zero, appr |-> Zero, vac |-> Zero, cashflows |-> <<>>,
   payoffBal |-> Zero, salePrice |-> Zero, netSale |-> Zero, r |-> NaN]

NoResult ==
  [irr_p10 |-> NaN, irr_p50 |-> NaN, irr_p90 |-> NaN, irr_mean |-> NaN,
   eq_p10 |-> NaN, eq_p50 |-> NaN, eq_p90 |-> NaN]

\* runMonteCarlo up to its loop
MonteCarloStart(st, runs, years, dist, exitMethod) ==
  [pc |-> "trial", runs |-> runs, years |-> years, dist |-> dist, exitMethod |-> exitMethod,
   base |-> Call("proformaAnnual", <<st>>),
   invested |-> Call("totalCashInvested", <<st>>),
   loan |-> Call("computeLoanAmount", <<st>>),
   sched |-> Call("amortSchedule",
                 <<Call("computeLoanAmount", <<st>>), st.interestRate, st.termYears>>),
   i |-> 0, irrList |-> <<>>, endEquityList |-> <<>>, trial |-> NoTrial, res |-> NoResult]

\* A loop that records the proceeds of a trial only when its IRR is finite
MonteCarloTrialResolvedOnly(run, st, z) ==
  LET t       == Call("Trial", <<run, st, z>>)
      irrList == IF IsFinite(t.r) THEN Append(run.irrList, t.r) ELSE run.irrList
      endEquityList == IF IsFinite(t.r) THEN Append(run.endEquityList, t.netSale)
                       ELSE run.endEquityList
  IN  IF After(<<t>>, run.i + 1 < run.runs)
        THEN [run EXCEPT !.i = run.i + 1, !.irrList = irrList,
                         !.endEquityList = endEquityList, !.trial = t]
        ELSE [run EXCEPT !.pc = "done", !.i = run.i + 1, !.trial = t,
                         !.irrList = Call("SortNumbers", <<irrList>>),
                         !.endEquityList = Call("SortNumbers", <<endEquityList>>),
                         !.res = Call("MonteCarloResult",
                                      <<Call("SortNumbers", <<irrList>>),
                                        Call("SortNumbers", <<endEquityList>>)>>)]

\* One trial, and after the last one the sorting and the result
MonteCarloTrial(run, st, z) ==
  LET t       == Call("Trial", <<run, st, z>>)
      irrList == IF IsFinite(t.r) THEN Append(run.irrList, t.r) ELSE run.irrList
      endEquityList == Append(run.endEquityList, t.netSale)
  IN  IF After(<<t>>, run.i + 1 < run.runs)
        THEN [run EXCEPT !.i = run.i + 1, !.irrList = irrList,
                         !.endEquityList = endEquityList, !.trial = t]
        ELSE [run EXCEPT !.pc = "done", !.i = run.i + 1, !.trial = t,
                         !.irrList = Call("SortNumbers", <<irrList>>),
                         !.endEquityList = Call("SortNumbers", <<endEquityList>>),
                         !.res = Call("MonteCarloResult",
                                      <<Call("SortNumbers", <<irrList>>),
                                        Call("SortNumbers", <<endEquityList>>)>>)]

\* defaultState(), the fields the formulas read
defaultStateBody ==
  [purchasePrice |-> FromInt(350000), closingCosts |-> FromInt(8000), rehabCosts |-> Zero,
   downPaymentPct |-> FromInt(25), interestRate |-> Dec(675, 2), termYears |-> FromInt(30),
   pointsPct |-> Zero, loanFees |-> Zero, loanAmount |-> Null,
   rentMonthly |-> FromInt(2800), otherIncomeLines |-> <<>>,
   propertyTaxesAnnual |-> FromInt(3600), insuranceAnnual |-> FromInt(1200),
   hoaMonthly |-> Zero, utilitiesMonthly |-> Zero,
   vacancyPct |-> FromInt(5), managementPct |-> FromInt(8), maintenancePct |-> FromInt(5),
   capexPct |-> FromInt(5), otherExpenseLines |-> <<>>,
   holdingYears |-> FromInt(10), sellingCostPct |-> FromInt(7),
   appreciationRate |-> FromInt(3), exitCapRate |-> Dec(65, 1),
   afterRepairValue |-> FromInt(350000),
   flipResalePrice |-> FromInt(420000), flipMonthsHeld |-> FromInt(6),
   flipHoldingCostsMonthly |-> Zero, flipExtraSellingCosts |-> Zero,
   brrrrRefiLtvPct |-> FromInt(75), brrrrRefiCosts |-> FromInt(6000),
   brrrrRefiRate |-> Dec(65, 1), brrrrRefiTermYears |-> FromInt(30)]

\* ------------------------------------------------------------------------
\* The objects behind the deal. A heap is a sequence of objects, the address
\* of an object is its index: the record the application passes is at
\* address 1, its arrays of income and of expense lines at 2 and 3 (arrays
\* of addresses), the line objects after them. The engine's functions take
\* a heap and return the heap they leave
\* ------------------------------------------------------------------------
Store(st) ==
  LET ni == Len(st.otherIncomeLines)
      ne == Len(st.otherExpenseLines)
  IN  <<[st EXCEPT !.otherIncomeLines = 2, !.otherExpenseLines = 3],
        <<>> \o [i \in 1..ni |-> 3 + i],
        <<>> \o [i \in 1..ne |-> 3 + ni + i]>>
      \o st.otherIncomeLines \o st.otherExpenseLines

\* The line objects of the array at address arr
LinesAt(h, arr) == <<>> \o [i \in 1..Len(h[arr]) |-> h[h[arr][i]]]

\* What a reader of the record at address a finds: every field, and
\* state[key][i] for every line
Load(h, a) ==
  [h[a] EXCEPT !.otherIncomeLines = LinesAt(h, h[a].otherIncomeLines),
               !.otherExpenseLines = LinesAt(h, h[a].otherExpenseLines)]

\* A map that scales the amount of every line object where it is and returns
\* the same objects
RECURSIVE MapLinesInPlace(_, _, _, _)
MapLinesInPlace(h, arr, mult, out) ==
  IF Len(out) = Len(h[arr]) THEN [heap |-> Append(h, out), ret |-> Len(h) + 1]
  ELSE LET x == h[arr][Len(out) + 1]
       IN  MapLinesInPlace([h EXCEPT ![x].amount = Mul(NumberOr(@, Zero), mult)],
                           arr, mult, Append(out, x))

\* lines.map(x => ({...x, amount: (Number(x.amount)||0) * mult})): a new
\* object for every line, then a new array of them; out holds the addresses
\* of the new objects so far, ret is the address of the new array
RECURSIVE MapLines(_, _, _, _)
MapLines(h, arr, mult, out) ==
  IF Len(out) = Len(h[arr]) THEN [heap |-> Append(h, out), ret |-> Len(h) + 1]
  ELSE LET x == h[arr][Len(out) + 1]
       IN  MapLines(Append(h, [h[x] EXCEPT !.amount = Mul(NumberOr(@, Zero), mult)]),
                    arr, mult, Append(out, Len(h) + 1))

\* sY = {...state, rentMonthly: ..., otherIncomeLines: ...}: a new record
\* with new arrays of new lines
ProjectedObject(h, a, rentMult, expMult, vac) ==
  LET Object(e, i) ==
        [heap |-> Append(i.heap,
                    [i.heap[a] EXCEPT
                       !.rentMonthly = Mul(NumberOr(@, Zero), rentMult),
                       !.vacancyPct = Mul(vac, FromInt(100)),
                       !.propertyTaxesAnnual = Mul(NumberOr(@, Zero), expMult),
                       !.insuranceAnnual = Mul(NumberOr(@, Zero), expMult),
                       !.hoaMonthly = Mul(NumberOr(@, Zero), expMult),
                       !.utilitiesMonthly = Mul(NumberOr(@, Zero), expMult),
                       !.otherExpenseLines = e.ret,
                       !.otherIncomeLines = i.ret]),
         ret |-> Len(i.heap) + 1]
      Income(e) == Object(e, MapLines(e.heap, e.heap[a].otherIncomeLines, rentMult, <<>>))
  IN  Income(MapLines(h, h[a].otherExpenseLines, expMult, <<>>))

\* The loop over the years of a trial: an sY for every year from y on
RECURSIVE ProjectYears(_, _, _, _, _, _, _)
ProjectYears(h, a, rentG, expG, vac, years, y) ==
  IF y > years THEN h
  ELSE ProjectYears(ProjectedObject(h, a, Pow(Add(One, rentG), y - 1),
                                    Pow(Add(One, expG), y - 1), vac).heap,
                    a, rentG, expG, vac, years, y + 1)

\* The heap after a trial: the sY of every year, and with the exit cap
\* method the sY of the sale; t is the trial, whose samples are those of the
\* record the heap holds
TrialObjects(h, a, run, t) ==
  LET loop == ProjectYears(h, a, t.rentG, t.expG, t.vac, run.years, 1)
  IN  IF run.exitMethod = "exitcap"
        THEN ProjectedObject(loop, a, Pow(Add(One, t.rentG), run.years - 1),
                             Pow(Add(One, t.expG), run.years - 1), t.vac).heap
        ELSE loop

\* The heap after renderSensitivity: s2 = {...state, rentMonthly, vacancyPct}
\* for every cell, a new record that shares the arrays of lines
SensObjects(h, a, rentDeltaPct, vacDeltaPP, size) ==
  LET k        == IF IntOf(size) > 0 THEN IntOf(size) ELSE 0
      center   == SensCenter(size)
      baseRent == NumberOr(h[a].rentMonthly, Zero)
      baseVac  == NumberOr(h[a].vacancyPct, Zero)
  IN  h \o [j \in 1..(k * k) |->
              [h[a] EXCEPT
                 !.rentMonthly = Mul(baseRent, Add(One, Div(Mul(FromInt(((j - 1) \div k) - center),
                                                              rentDeltaPct), FromInt(100)))),
                 !.vacancyPct = Add(baseVac, Mul(FromInt(((j - 1) % k) - center), vacDeltaPP))]]

\* ------------------------------------------------------------------------
\* The operation f applied to the arguments a
\* ------------------------------------------------------------------------
Call(f, a) ==
  CASE Len(a) < 0 -> a
    [] f = "AddN" -> AddNBody(a[1], a[2])
    [] f = "SubN" -> SubNBody(a[1], a[2])
    [] f = "MulSmall" -> MulSmallBody(a[1], a[2])
    [] f = "MulN" -> MulNBody(a[1], a[2])
    [] f = "DivN" -> DivNBody(a[1], a[2])
    [] f = "ShiftLeft" -> ShiftLeftBody(a[1], a[2])
    [] f = "ShiftRight" -> ShiftRightBody(a[1], a[2])
    [] f = "LowBits" -> LowBitsBody(a[1], a[2])
    [] f = "RoundN" -> RoundNBody(a[1], a[2], a[3])
    [] f = "FromInt" -> FromIntBody(a[1])
    [] f = "Add" -> AddBody(a[1], a[2])
    [] f = "Sub" -> SubBody(a[1], a[2])
    [] f = "Mul" -> MulBody(a[1], a[2])
    [] f = "Div" -> DivBody(a[1], a[2])
    [] f = "Cmp" -> CmpBody(a[1], a[2])
    [] f = "Floor" -> FloorBody(a[1])
    [] f = "Round" -> RoundBody(a[1])
    [] f = "Pow" -> PowBody(a[1], a[2])
    [] f = "Dec" -> DecBody(a[1], a[2])
    [] f = "toFixed" -> toFixedBody(a[1], a[2])
    [] f = "n" -> n(a[1])
    [] f = "clamp" -> clamp(a[1], a[2], a[3])
    [] f = "pct" -> pct(a[1])
    [] f = "monthlyPayment" -> monthlyPayment(a[1], a[2], a[3])
    [] f = "amortSchedule" -> amortSchedule(a[1], a[2], a[3])
    [] f = "computeLoanAmount" -> computeLoanAmount(a[1])
    [] f = "totalCashInvested" -> totalCashInvested(a[1])
    [] f = "sumLines" -> sumLines(a[1])
    [] f = "proformaAnnual" -> proformaAnnual(a[1])
    [] f = "flipResults" -> flipResults(a[1])
    [] f = "brrrrResults" -> brrrrResults(a[1])
    [] f = "defaultState" -> defaultStateBody
    [] f = "TrialObjects" -> TrialObjects(a[1], a[2], a[3], a[4])
    [] f = "SensObjects" -> SensObjects(a[1], a[2], a[3], a[4], a[5])
    [] f = "irr" -> irr(a[1])
    [] f = "quantile" -> quantile(a[1], a[2])
    [] f = "IrrStep" -> IrrStep(a[1], a[2])
    [] f = "npv" -> npv(a[1], a[2])
    [] f = "dnpv" -> dnpv(a[1], a[2])
    [] f = "SensCell" -> SensCell(a[1], a[2], a[3], a[4], a[5], a[6])
    [] f = "YearlyCashflows" -> YearlyCashflows(a[1], a[2], a[3], a[4], a[5], a[6])
    [] f = "SalePrice" -> SalePrice(a[1], a[2], a[3], a[4], a[5], a[6], a[7])
    [] f = "Trial" -> Trial(a[1], a[2], a[3])
    [] f = "SortNumbers" -> SortNumbers(a[1])
    [] f = "MonteCarloResult" -> MonteCarloResult(a[1], a[2])
    [] f = "renderSensitivity" -> renderSensitivity(a[1], a[2], a[3], a[4])
    [] f = "MonteCarloStart" -> MonteCarloStart(a[1], a[2], a[3], a[4], a[5])
    [] f = "MonteCarloTrial" -> MonteCarloTrial(a[1], a[2], a[3])

\* ------------------------------------------------------------------------
\* js/app.js, js/ui.js, state.js, portfolio.js: the page. Objects and arrays
\* live on a heap and are named by their address; a JSON text is modelled by
\* the value it denotes, a number by an integer under a tag
\* ------------------------------------------------------------------------
LineKeys == {"otherIncomeLines", "otherExpenseLines"}

Num(i) == [t |-> "number", v |-> i]

NullValue == [t |-> "null", v |-> 0]

\* The texts typed into the inputs of the model, with the numbers they denote
TextNumbers ==
  {[text |-> "0", number |-> 0], [text |-> "2", number |-> 2], [text |-> "3", number |-> 3],
   [text |-> "4", number |-> 4], [text |-> "5", number |-> 5], [text |-> "50", number |-> 50],
   [text |-> "80", number |-> 80], [text |-> "500", number |-> 500],
   [text |-> "2800", number |-> 2800], [text |-> "3000", number |-> 3000]}

\* Number(text): 0 for the empty text
NumberOfText(text) ==
  IF text = "" THEN 0 ELSE (CHOOSE e \in TextNumbers : e.text = text).number

\* String(i)
TextOfNumber(i) == (CHOOSE e \in TextNumbers : e.number = i).text

\* An index of an array that holds no element, and the null JSON has for it
Hole == [label |-> "<empty>", amount |-> NullValue]

NullItem == [label |-> "<null>", amount |-> NullValue]

\* JSON.parse(JSON.stringify(lines))
JsonLines(lines) ==
  <<>> \o [i \in 1..Len(lines) |-> IF lines[i] = Hole THEN NullItem ELSE lines[i]]

\* JSON.stringify of a deal whose arrays are on the heap of p
DealJson(p, d) ==
  [rentMonthly |-> d.rentMonthly,
   otherIncomeLines |-> JsonLines(p.arrs[d.otherIncomeLines]),
   otherExpenseLines |-> JsonLines(p.arrs[d.otherExpenseLines])]

\* JSON.stringify of a portfolio list
ListJson(p, list) ==
  <<>> \o [i \in 1..Len(list) |->
             [id |-> list[i].id, snapshot |-> DealJson(p, list[i].snapshot)]]

\* state[key], the array of the deal the module variable state holds
LiveLines(p, key) == p.arrs[p.objs[p.live][key]]

saveState(p) == [p EXCEPT !.saved = DealJson(p, p.objs[p.live])]

\* onStateChange: the renderings read the deal, saveState stores it
onStateChange(p) == saveState(p)

hydrateFields(p) ==
  [p EXCEPT !.field = IF p.objs[p.live].rentMonthly = NullValue THEN ""
                      ELSE TextOfNumber(p.objs[p.live].rentMonthly.v)]

\* addLine: a row with the label and the amount of item, whose listeners keep
\* idx, the length of state[key] before the push
addLine(p, key, item) ==
  LET row == [label |-> item.label, amount |-> TextOfNumber(item.amount.v),
              idx |-> Len(LiveLines(p, key))]
  IN  [p EXCEPT !.rows[key] = Append(@, row),
                !.arrs[p.objs[p.live][key]] =
                   Append(@, [label |-> row.label, amount |-> Num(NumberOfText(row.amount))])]

\* forEach over the first n indices of state[key]: an empty index is passed
\* over, item.label of null throws
RECURSIVE RenderFrom(_, _, _, _)
RenderFrom(p, key, i, last) ==
  IF i > last \/ p.thrown THEN p
  ELSE IF LiveLines(p, key)[i] = Hole THEN RenderFrom(p, key, i + 1, last)
  ELSE IF LiveLines(p, key)[i] = NullItem THEN [p EXCEPT !.thrown = TRUE]
  ELSE RenderFrom(addLine(p, key, LiveLines(p, key)[i]), key, i + 1, last)

renderLines(p, key) ==
  IF p.thrown THEN p
  ELSE RenderFrom([p EXCEPT !.rows[key] = <<>>], key, 1, Len(LiveLines(p, key)))

\* array[idx] = item for an index from 0: an index past the end leaves empty
\* indices before it
SetAt(lines, idx, item) ==
  IF idx < Len(lines) THEN [lines EXCEPT ![idx + 1] = item]
  ELSE lines \o [i \in 1..(idx - Len(lines)) |-> Hole] \o <<item>>

\* array.splice(index, 1) for an index from 0
Splice(lines, index) ==
  IF index < Len(lines) THEN SubSeq(lines, 1, index) \o SubSeq(lines, index + 2, Len(lines))
  ELSE lines

\* sync, the input listener of row r: the label or the amount of the row has
\* become text
sync(p, key, r, part, text) ==
  LET row == [p.rows[key][r] EXCEPT ![part] = text]
  IN  onStateChange(
        [p EXCEPT !.rows[key][r] = row,
                  !.arrs[p.objs[p.live][key]] =
                     SetAt(@, row.idx, [label |-> row.label,
                                        amount |-> Num(NumberOfText(row.amount))])])

\* The click listener of the remove button of row r
removeLine(p, key, r) ==
  onStateChange(
    [p EXCEPT !.arrs[p.objs[p.live][key]] = Splice(@, r - 1),
              !.rows[key] = SubSeq(@, 1, r - 1) \o SubSeq(@, r + 1, Len(@))])

\* The click listener of a clear button: state[key] = [] is a new array
clearLines(p, key) ==
  onStateChange(renderLines(
    [p EXCEPT !.arrs = Append(@, <<>>), !.objs[p.live][key] = Len(p.arrs) + 1], key))

\* handler of bindFieldUpdates on the rent input, of type number: it assigns
\* to the object bindFieldUpdates was called with
fieldHandler(p, text) ==
  onStateChange(
    [p EXCEPT !.field = text,
              !.objs[p.bound].rentMonthly =
                 IF text = "" THEN NullValue ELSE Num(NumberOfText(text))])

\* The arrays JSON.parse makes for the snapshots of a stored list, and the
\* list with the addresses they get after base
ParsedArrays(stored) ==
  <<>> \o [j \in 1..2 * Len(stored) |->
             IF j % 2 = 1 THEN stored[(j + 1) \div 2].snapshot.otherIncomeLines
             ELSE stored[j \div 2].snapshot.otherExpenseLines]

ParsedList(base, stored) ==
  <<>> \o [k \in 1..Len(stored) |->
             [id |-> stored[k].id,
              snapshot |-> [rentMonthly |-> stored[k].snapshot.rentMonthly,
                            otherIncomeLines |-> base + 2 * k - 1,
                            otherExpenseLines |-> base + 2 * k]]]

\* refreshPortfolio: list = loadPortfolio() goes to the table, and to one more
\* click listener of the export button and one more change listener of the
\* file input
refreshPortfolio(p) ==
  [p EXCEPT !.arrs = @ \o ParsedArrays(p.stored),
            !.lists = Append(@, ParsedList(Len(p.arrs), p.stored))]

\* The click listener of #btnSavePortfolio: saveCurrentToPortfolio puts the
\* deal in front of the stored list
savePortfolioClick(p) ==
  refreshPortfolio(
    [p EXCEPT !.stored = <<[id |-> p.nextId, snapshot |-> DealJson(p, p.objs[p.live])]>> \o @,
              !.nextId = @ + 1])

\* onLoad of the table, whose buttons are those of the last list: state is a
\* new object with the properties of the snapshot, arrays included
loadSnapshot(p, id) ==
  LET list == p.lists[Len(p.lists)]
      item == list[CHOOSE i \in 1..Len(list) : list[i].id = id]
  IN  IF \A i \in 1..Len(list) : list[i].id # id THEN p
      ELSE LET rendered ==
                 renderLines(renderLines(hydrateFields(saveState(
                   [p EXCEPT !.objs = Append(@, item.snapshot), !.live = Len(p.objs) + 1])),
                   "otherIncomeLines"), "otherExpenseLines")
           IN  IF rendered.thrown THEN rendered ELSE saveState(onStateChange(rendered))

\* onDelete of the table
deleteSnapshot(p, id) ==
  refreshPortfolio(
    [p EXCEPT !.stored = SelectSeq(@, LAMBDA x : x.id # id)])

\* onApply of the import modal: Object.assign(state, patch)
applyPatch(p, rent) ==
  LET rendered ==
        renderLines(renderLines(hydrateFields(saveState(
          [p EXCEPT !.objs[p.live].rentMonthly = Num(rent)])),
          "otherIncomeLines"), "otherExpenseLines")
  IN  IF rendered.thrown THEN rendered ELSE onStateChange(rendered)

\* parseMeanStd of a text given by its parts, separators among them
parseMeanStd(text) ==
  IF Len(text) = 3 /\ text[2] \in {"+/-", ","}
    THEN [mean |-> NumberOfText(text[1]), std |-> NumberOfText(text[3])]
    ELSE [mean |-> NumberOfText(IF Len(text) = 0 THEN "" ELSE text[1]), std |-> 0]

\* Number(text) || d
NumberOfTextOr(text, d) == IF NumberOfText(text) = 0 THEN d ELSE NumberOfText(text)

\* The click listener of #btnRunMC: the arguments are read from the form and
\* kept by the callback of the timer
runMCClick(p) ==
  [p EXCEPT !.timers = Append(@,
     [runs |-> MinI(50000, MaxI(100, NumberOfTextOr(p.mcForm.runs, 3000))),
      years |-> MinI(50, MaxI(1, NumberOfTextOr(p.mcForm.years, 10))),
      dist |-> [rent |-> parseMeanStd(p.mcForm.rent), exp |-> parseMeanStd(p.mcForm.exp),
                appr |-> parseMeanStd(p.mcForm.appr), vac |-> parseMeanStd(p.mcForm.vac)],
      exitMethod |-> p.mcForm.exitMethod,
      clicked |-> [deal |-> DealJson(p, p.objs[p.live]), form |-> p.mcForm]])]

\* The callback of the oldest timer: runMonteCarlo(state, runs, years, dist,
\* exitMethod), of which the arguments are kept
timerCallback(p) ==
  [p EXCEPT !.timers = Tail(@),
            !.ran = [deal |-> DealJson(p, p.objs[p.live]), runs |-> p.timers[1].runs,
                     years |-> p.timers[1].years, dist |-> p.timers[1].dist,
                     exitMethod |-> p.timers[1].exitMethod, clicked |-> p.timers[1].clicked]]

\* One click on #btnPortfolioExport: every listener downloads the list of its
\* refreshPortfolio
exportClick(p) ==
  [p EXCEPT !.downloads = <<>> \o [k \in 1..Len(p.lists) |-> ListJson(p, p.lists[k])]]

\* A stored list that is not an array
NotAnArray == <<[id |-> -1, snapshot |-> NullValue]>>

\* One change listener of #portfolioFile on the file chosen
RECURSIVE FileChanged(_, _, _)
FileChanged(p, file, listeners) ==
  IF listeners = 0 THEN p
  ELSE FileChanged(
         IF file = NotAnArray THEN [p EXCEPT !.processed = @ + 1]
         ELSE refreshPortfolio([p EXCEPT !.stored = file, !.processed = @ + 1]),
         file, listeners - 1)

\* A file is chosen: every change listener there is reads it
fileChosen(p, file) == FileChanged([p EXCEPT !.processed = 0], file, Len(p.lists))

\* The stored deals loadState finds: none, and a deal with a line of income
\* and a line of expense
SavedDeals ==
  {NullValue,
   [rentMonthly |-> Num(2800),
    otherIncomeLines |-> <<[label |-> "Parking", amount |-> Num(50)]>>,
    otherExpenseLines |-> <<>>]}

\* The page before the script runs
NoPage ==
  [objs |-> <<>>, arrs |-> <<>>, live |-> 0, bound |-> 0, field |-> "",
   rows |-> [otherIncomeLines |-> <<>>, otherExpenseLines |-> <<>>],
   saved |-> NullValue, stored |-> <<>>, lists |-> <<>>, nextId |-> 1,
   downloads |-> <<>>, processed |-> 0,
   mcForm |-> [runs |-> "", years |-> "", rent |-> <<"3", ",", "2">>, exp |-> <<"2">>,
               appr |-> <<"3">>, vac |-> <<"5">>, exitMethod |-> "appreciation"],
   timers |-> <<>>, ran |-> NullValue, thrown |-> FALSE, steps |-> 0, last |-> "none"]

\* loadState and main: the deal comes from the saved text or from
\* defaultState, bindInputs renders it and binds the fields to it
main(saved) ==
  LET deal == IF saved = NullValue
                THEN [rentMonthly |-> Num(2800), otherIncomeLines |-> <<>>,
                      otherExpenseLines |-> <<>>]
                ELSE saved
      loaded == [NoPage EXCEPT
                   !.saved = saved,
                   !.arrs = <<deal.otherIncomeLines, deal.otherExpenseLines>>,
                   !.objs = <<[rentMonthly |-> deal.rentMonthly, otherIncomeLines |-> 1,
                               otherExpenseLines |-> 2]>>,
                   !.live = 1, !.bound = 1, !.last = "main"]
  IN  onStateChange(saveState(refreshPortfolio(
        renderLines(renderLines(hydrateFields(loaded), "otherIncomeLines"),
                    "otherExpenseLines"))))

\* ------------------------------------------------------------------------
\* state.js: the deal, and the calls the application makes on it
\* ------------------------------------------------------------------------
VARIABLES state, call, it, sens, mc, page

vars == <<state, call, it, sens, mc, page>>

defaultState == Call("defaultState", <<>>)

\* No library call has returned yet
NoCall == [fn |-> "none", args |-> <<>>, ret |-> <<>>]

\* irr is not running
NoIrr ==
  [cf |-> <<>>, rstar |-> Null, shape |-> "", stake |-> Zero, st |-> IrrDone(IrrStart, NaN)]

\* #sensTable before the first rendering
NoTable == [size |-> 0, center |-> 0, header |-> <<>>, labels |-> <<>>, cells |-> <<>>]

\* No Monte Carlo run has started
NoRun ==
  [pc |-> "idle", runs |-> 0, years |-> 0, dist |-> <<>>, exitMethod |-> "",
   base |-> <<>>, invested |-> Zero, loan |-> Zero, sched |-> <<>>,
   i |-> 0, irrList |-> <<>>, endEquityList |-> <<>>, trial |-> NoTrial, res |-> NoResult]

\* The deals of the model: a number input holds a finite number or is empty
LoanAmounts == {Null, Zero, FromInt(200000), FromInt(-5000)}

PurchasePrices == {Zero, FromInt(350000)}

DownPayments == {Null, FromInt(-10), FromInt(25), FromInt(100), FromInt(150)}

TermsOfDeal == {Zero, FromInt(30)}

\* 12000 % over 30 years: Math.pow overflows in monthlyPayment
RatesOfDeal == {Zero, Dec(675, 2), FromInt(12000)}

RentsOfLease == {Zero, FromInt(2800)}

Deals ==
  { [defaultState EXCEPT !.loanAmount = la, !.purchasePrice = pp, !.downPaymentPct = dp,
                         !.termYears = ty, !.interestRate = ir, !.rentMonthly = rm] :
      la \in LoanAmounts, pp \in PurchasePrices, dp \in DownPayments,
      ty \in TermsOfDeal, ir \in RatesOfDeal, rm \in RentsOfLease }

\* Deals with percentages below 0, within 0..90 and above 90, and a deal
\* without rent
PercentDeals ==
  { [defaultState EXCEPT !.vacancyPct = FromInt(e.vac), !.managementPct = FromInt(e.mgmt),
                         !.maintenancePct = FromInt(e.maint), !.capexPct = FromInt(e.capex),
                         !.rentMonthly = FromInt(e.rent)] :
      e \in {[vac |-> 95, mgmt |-> 95, maint |-> 95, capex |-> 95, rent |-> 2800],
             [vac |-> -5, mgmt |-> -8, maint |-> -1, capex |-> -100, rent |-> 2800],
             [vac |-> 90, mgmt |-> 90, maint |-> 90, capex |-> 90, rent |-> 2800],
             [vac |-> 100, mgmt |-> 0, maint |-> 0, capex |-> 0, rent |-> 2800],
             [vac |-> 40, mgmt |-> 30, maint |-> 20, capex |-> 15, rent |-> 2800],
             [vac |-> 50, mgmt |-> 45, maint |-> 30, capex |-> 20, rent |-> 0]} }

Init ==
  /\ state \in Deals \cup PercentDeals
  /\ call = NoCall
  /\ it = NoIrr
  /\ sens = NoTable
  /\ mc = NoRun
  /\ page = NoPage

ComputeLoanAmount ==
  /\ call = NoCall
  /\ call' = [fn |-> "computeLoanAmount", args |-> <<state>>,
              ret |-> Call("computeLoanAmount", <<state>>)]
  /\ UNCHANGED <<state, it, sens, mc, page>>

TotalCashInvested ==
  /\ call = NoCall
  /\ call' = [fn |-> "totalCashInvested", args |-> <<state>>,
              ret |-> Call("totalCashInvested", <<state>>)]
  /\ UNCHANGED <<state, it, sens, mc, page>>

ProformaAnnual ==
  /\ call = NoCall
  /\ call' = [fn |-> "proformaAnnual", args |-> <<state>>,
              ret |-> Call("proformaAnnual", <<state>>)]
  /\ UNCHANGED <<state, it, sens, mc, page>>

Next == ComputeLoanAmount \/ TotalCashInvested \/ ProformaAnnual

Spec == Init /\ [][Next]_vars

\* ------------------------------------------------------------------------
\* monthlyPayment and amortSchedule on principals, rates and terms
\* ------------------------------------------------------------------------
Principals ==
  {Zero, Dec(4, 3), Dec(2, 2), FromInt(1000), FromInt(262500), FromInt(-500)}

Rates ==
  {Zero, Dec(1, 14), Dec(1, 12), Dec(1, 6), Dec(675, 2), FromInt(12), FromInt(1200),
   FromInt(12000), FromInt(-2400)}

Terms == {FromInt(-1), Zero, Dec(4, 2), Dec(1, 1), Dec(5, 1), FromInt(1), FromInt(30)}

InitLoan ==
  /\ state = defaultState
  /\ call = NoCall
  /\ it = NoIrr
  /\ sens = NoTable
  /\ mc = NoRun
  /\ page = NoPage

MonthlyPayment(P, rate, term) ==
  /\ call = NoCall
  /\ call' = [fn |-> "monthlyPayment", args |-> <<P, rate, term>>,
              ret |-> Call("monthlyPayment", <<P, rate, term>>)]
  /\ UNCHANGED <<state, it, sens, mc, page>>

AmortSchedule(P, rate, term) ==
  /\ call = NoCall
  /\ call' = [fn |-> "amortSchedule", args |-> <<P, rate, term>>,
              ret |-> Call("amortSchedule", <<P, rate, term>>)]
  /\ UNCHANGED <<state, it, sens, mc, page>>

NextLoan ==
  \E P \in Principals, rate \in Rates, term \in Terms :
    MonthlyPayment(P, rate, term) \/ AmortSchedule(P, rate, term)

SpecLoan == InitLoan /\ [][NextLoan]_vars

\* ------------------------------------------------------------------------
\* quantile on ascending sequences
\* ------------------------------------------------------------------------
MaxSeqLen == 3

Samples == {Dec(1, 1), FromInt(1), FromInt(2), FromInt(4)}

SortedSeqs ==
  {s \in UNION {[1..k -> Samples] : k \in 0..MaxSeqLen} :
     \A i \in 1..Len(s) - 1 : Le(s[i], s[i + 1])}

Quantiles == {Zero, Dec(1, 1), Dec(25, 2), Dec(5, 1), Dec(9, 1), One}

InitQuantile ==
  /\ state = defaultState
  /\ call = NoCall
  /\ it = NoIrr
  /\ sens = NoTable
  /\ mc = NoRun
  /\ page = NoPage

Quantile(sorted, q) ==
  /\ call = NoCall
  /\ call' = [fn |-> "quantile", args |-> <<sorted, q>>,
              ret |-> Call("quantile", <<sorted, q>>)]
  /\ UNCHANGED <<state, it, sens, mc, page>>

NextQuantile == \E sorted \in SortedSeqs, q \in Quantiles : Quantile(sorted, q)

SpecQuantile == InitQuantile /\ [][NextQuantile]_vars

\* ------------------------------------------------------------------------
\* irr, one iteration of its loops per step
\* ------------------------------------------------------------------------
\* [-C, C * (1 + r)]: one payment back after a year
TwoFlows(C, r) == <<Neg(C), Mul(C, Add(One, r))>>

\* [-C, C * r, ..., C * r, C * (1 + r)]: a bond bought and redeemed at par,
\* T coupons
ParBond(C, r, T) ==
  <<Neg(C)>> \o [t \in 1..T - 1 |-> Mul(C, r)] \o <<Mul(C, Add(One, r))>>

MaxPeriods == 5

Stakes == {One, FromInt(1000), FromInt(100000)}

KnownRates == {Dec(-4, 1), Zero, Dec(5, 2), Dec(1, 1), Dec(2, 1), One, FromInt(4)}

\* The sequences irr is run on, each with the rate it was built from (null
\* when it was built from none), its shape and its stake
IrrInputs ==
  {[cf |-> TwoFlows(C, r), rstar |-> r, shape |-> "two", stake |-> C] :
     C \in Stakes, r \in KnownRates}
  \cup {[cf |-> ParBond(C, r, T), rstar |-> r, shape |-> "bond", stake |-> C] :
          C \in Stakes, r \in {x \in KnownRates : Ge(x, Zero)}, T \in 2..MaxPeriods}
  \cup {[cf |-> <<FromInt(-1000), FromInt(1100)>>, rstar |-> Dec(1, 1),
         shape |-> "example", stake |-> FromInt(1000)],
        [cf |-> <<FromInt(-1000), FromInt(2300), FromInt(-1320)>>, rstar |-> Dec(2, 1),
         shape |-> "two roots", stake |-> FromInt(1000)],
        [cf |-> <<FromInt(-1000), FromInt(10)>>, rstar |-> Dec(-99, 2),
         shape |-> "steep loss", stake |-> FromInt(1000)],
        [cf |-> TwoFlows(Dec(1, 2), Dec(10001, 5)), rstar |-> Dec(10001, 5),
         shape |-> "cents", stake |-> Dec(1, 2)],
        [cf |-> <<FromInt(-1000), NaN>>, rstar |-> Null,
         shape |-> "not a number", stake |-> FromInt(1000)],
        [cf |-> <<FromInt(-1000), Infinity>>, rstar |-> Null,
         shape |-> "infinite", stake |-> FromInt(1000)],
        [cf |-> <<FromInt(1000), FromInt(100)>>, rstar |-> Null,
         shape |-> "no root", stake |-> FromInt(1000)],
        [cf |-> <<FromInt(-2), FromInt(-4), Zero, FromInt(3)>>, rstar |-> Null,
         shape |-> "wandering", stake |-> FromInt(2)]}

InitIrr ==
  /\ state = defaultState
  /\ call = NoCall
  /\ it \in {[cf |-> x.cf, rstar |-> x.rstar, shape |-> x.shape, stake |-> x.stake,
              st |-> IrrStart] : x \in IrrInputs}
  /\ sens = NoTable
  /\ mc = NoRun
  /\ page = NoPage

IrrNewton ==
  /\ it.st.pc = "newton"
  /\ it' = [it EXCEPT !.st = Call("IrrStep", <<it.cf, it.st>>)]
  /\ UNCHANGED <<state, call, sens, mc, page>>

IrrBracket ==
  /\ it.st.pc = "bracket"
  /\ it' = [it EXCEPT !.st = Call("IrrStep", <<it.cf, it.st>>)]
  /\ UNCHANGED <<state, call, sens, mc, page>>

IrrBisect ==
  /\ it.st.pc = "bisect"
  /\ it' = [it EXCEPT !.st = Call("IrrStep", <<it.cf, it.st>>)]
  /\ UNCHANGED <<state, call, sens, mc, page>>

NextIrr == IrrNewton \/ IrrBracket \/ IrrBisect

SpecIrr == InitIrr /\ [][NextIrr]_vars

\* ------------------------------------------------------------------------
\* js/app.js: bindSensitivity, the click on Run
\* ------------------------------------------------------------------------
RentsOfDeal == {Null, FromInt(2800), Dec(123456, 2)}

VacanciesOfDeal == {FromInt(5), FromInt(95)}

SensDeals ==
  { [defaultState EXCEPT !.rentMonthly = rm, !.vacancyPct = vp, !.loanAmount = la] :
      rm \in RentsOfDeal, vp \in VacanciesOfDeal, la \in {Null, Zero} }

\* The values of #sensRentDelta, #sensVacDelta and #sensSize: zero stands for
\* an empty or zero input
RentDeltaInputs == {Zero, Dec(25, 1)}

VacDeltaInputs == {Zero, Dec(1, 1)}

MaxSize == 3

SizeInputs == {FromInt(k) : k \in 0..MaxSize}

InitSens ==
  /\ state \in SensDeals
  /\ call = NoCall
  /\ it = NoIrr
  /\ sens = NoTable
  /\ mc = NoRun
  /\ page = NoPage

ClickRunSensitivity(rentInput, vacInput, sizeInput) ==
  /\ sens = NoTable
  /\ sens' = Call("renderSensitivity",
                  <<state, NumberOr(rentInput, FromInt(10)), NumberOr(vacInput, FromInt(3)),
                    NumberOr(sizeInput, FromInt(5))>>)
  /\ UNCHANGED <<state, call, it, mc, page>>

NextSens ==
  \E rentInput \in RentDeltaInputs, vacInput \in VacDeltaInputs, sizeInput \in SizeInputs :
    ClickRunSensitivity(rentInput, vacInput, sizeInput)

SpecSens == InitSens /\ [][NextSens]_vars

\* ------------------------------------------------------------------------
\* runMonteCarlo on a deal, a number of runs, a horizon, distributions and an
\* exit method
\* ------------------------------------------------------------------------
MaxRuns == 3

MaxYears == 2

MCDeals ==
  {defaultState,
   [defaultState EXCEPT !.purchasePrice = FromInt(250000), !.loanAmount = Zero]}

Fixed(mean) == [mean |-> mean, std |-> Zero]

\* The distributions: all fixed, rent growth and appreciation spread (so wide
\* that a draw turns the sale price negative), and an appreciation that
\* parseMeanStd could not read
Distributions ==
  {[rent |-> Fixed(FromInt(3)), exp |-> Fixed(FromInt(2)), appr |-> Fixed(FromInt(3)),
    vac |-> Fixed(FromInt(5))],
   [rent |-> [mean |-> FromInt(3), std |-> FromInt(2)], exp |-> Fixed(FromInt(2)),
    appr |-> [mean |-> FromInt(3), std |-> FromInt(200)], vac |-> Fixed(FromInt(5))],
   [rent |-> Fixed(FromInt(3)), exp |-> Fixed(FromInt(2)), appr |-> Fixed(NaN),
    vac |-> Fixed(FromInt(5))]}

\* What the four calls of randn in a trial return
RandnDraws ==
  {<<FromInt(-1), FromInt(-1), FromInt(-1), FromInt(-1)>>,
   <<FromInt(2), FromInt(-1), Dec(5, 1), Zero>>}

InitMC ==
  /\ state \in MCDeals
  /\ call = NoCall
  /\ it = NoIrr
  /\ sens = NoTable
  /\ mc = NoRun
  /\ page = NoPage

MCStart(runs, years, dist, exitMethod) ==
  /\ mc.pc = "idle"
  /\ mc' = Call("MonteCarloStart", <<state, runs, years, dist, exitMethod>>)
  /\ UNCHANGED <<state, call, it, sens, page>>

MCTrial(z) ==
  /\ mc.pc = "trial"
  /\ mc' = Call("MonteCarloTrial", <<mc, state, z>>)
  /\ UNCHANGED <<state, call, it, sens, page>>

NextMC ==
  \/ \E runs \in 1..MaxRuns, years \in 1..MaxYears, dist \in Distributions,
        exitMethod \in {"appreciation", "exitcap"} : MCStart(runs, years, dist, exitMethod)
  \/ \E z \in RandnDraws : MCTrial(z)

SpecMC == InitMC /\ [][NextMC]_vars

\* ------------------------------------------------------------------------
\* runMonteCarlo, one trial, on deals at and beyond the clamps
\* ------------------------------------------------------------------------
\* The default deal; no selling cost and no exit cap rate; both above their
\* clamps on a loan of one year; both within them on a negative loan; a
\* purchase without a loan; a loan without a term, whose schedule is empty;
\* a rate at which Math.pow overflows and the payment is NaN
TrialDeals ==
  { [defaultState EXCEPT
       !.sellingCostPct = FromInt(e.sell), !.exitCapRate = Dec(e.cap, 1),
       !.termYears = FromInt(e.term), !.interestRate = Dec(e.rate, 2),
       !.purchasePrice = FromInt(e.price),
       !.loanAmount = IF e.auto THEN Null ELSE FromInt(e.loan)] :
      e \in {[sell |-> 7, cap |-> 65, term |-> 30, rate |-> 675, price |-> 350000,
               auto |-> TRUE, loan |-> 0],
              [sell |-> 0, cap |-> 0, term |-> 30, rate |-> 675, price |-> 350000,
               auto |-> TRUE, loan |-> 0],
              [sell |-> 50, cap |-> 300, term |-> 1, rate |-> 675, price |-> 350000,
               auto |-> TRUE, loan |-> 0],
              [sell |-> 10, cap |-> 5, term |-> 30, rate |-> 675, price |-> 350000,
               auto |-> FALSE, loan |-> -5000],
              [sell |-> 7, cap |-> 65, term |-> 30, rate |-> 675, price |-> 250000,
               auto |-> FALSE, loan |-> 0],
              [sell |-> 7, cap |-> 65, term |-> 0, rate |-> 675, price |-> 350000,
               auto |-> TRUE, loan |-> 0],
              [sell |-> 7, cap |-> 65, term |-> 30, rate |-> 1200000, price |-> 350000,
               auto |-> TRUE, loan |-> 0]} }

InitTrial ==
  /\ state \in TrialDeals
  /\ call = NoCall
  /\ it = NoIrr
  /\ sens = NoTable
  /\ mc = NoRun
  /\ page = NoPage

NextTrial ==
  \/ \E years \in 1..MaxYears, dist \in Distributions,
        exitMethod \in {"appreciation", "exitcap"} : MCStart(1, years, dist, exitMethod)
  \/ \E z \in RandnDraws : MCTrial(z)

SpecTrial == InitTrial /\ [][NextTrial]_vars

\* Deals with lines: parking and laundry income, lawn care; lines on one
\* side only; a line without an amount; the default deal, without lines
FrameDeals ==
  { [defaultState EXCEPT
       !.otherIncomeLines = l.income, !.otherExpenseLines = l.expense,
       !.loanAmount = IF l.auto THEN Null ELSE FromInt(200000)] :
      l \in {[income  |-> <<[label |-> "Parking", amount |-> FromInt(50)],
                            [label |-> "Laundry", amount |-> Dec(125, 1)]>>,
               expense |-> <<[label |-> "Lawn care", amount |-> FromInt(80)]>>,
               auto |-> TRUE],
              [income  |-> <<[label |-> "Parking", amount |-> FromInt(50)]>>,
               expense |-> <<>>, auto |-> TRUE],
              [income  |-> <<>>,
               expense |-> <<[label |-> "Lawn care", amount |-> FromInt(80)],
                             [label |-> "", amount |-> Zero]>>,
               auto |-> FALSE],
              [income |-> <<>>, expense |-> <<>>, auto |-> TRUE]} }

InitFrame ==
  /\ state \in FrameDeals
  /\ call = NoCall
  /\ it = NoIrr
  /\ sens = NoTable
  /\ mc = NoRun
  /\ page = NoPage

\* One of the engine's functions of the record alone, called on the record
\* at address 1: none of them assigns to a property
CallOnRecord(fn) ==
  /\ call = NoCall /\ sens = NoTable /\ mc = NoRun
  /\ LET h == Store(state)
     IN  /\ call' = [fn |-> fn, args |-> <<1>>,
                     ret |-> Call(fn, <<Load(h, 1)>>)]
         /\ state' = Load(h, 1)
  /\ UNCHANGED <<it, sens, mc, page>>

RenderSensitivityOnRecord(rentInput, vacInput, sizeInput) ==
  /\ call = NoCall /\ sens = NoTable /\ mc = NoRun
  /\ LET h    == Store(state)
         rent == NumberOr(rentInput, FromInt(10))
         vac  == NumberOr(vacInput, FromInt(3))
         size == NumberOr(sizeInput, FromInt(5))
     IN  /\ sens' = Call("renderSensitivity", <<Load(h, 1), rent, vac, size>>)
         /\ state' = Load(Call("SensObjects", <<h, 1, rent, vac, size>>), 1)
  /\ UNCHANGED <<call, it, mc, page>>

\* runMonteCarlo up to its loop: reads of the record
MCStartOnRecord(years, dist, exitMethod) ==
  /\ call = NoCall /\ sens = NoTable /\ mc = NoRun
  /\ LET h == Store(state)
     IN  /\ mc' = Call("MonteCarloStart", <<Load(h, 1), 1, years, dist, exitMethod>>)
         /\ state' = Load(h, 1)
  /\ UNCHANGED <<call, it, sens, page>>

\* A trial of runMonteCarlo, and the record after it
MCTrialOnRecord(z) ==
  /\ mc.pc = "trial"
  /\ LET h == Store(state)
     IN  /\ mc' = Call("MonteCarloTrial", <<mc, Load(h, 1), z>>)
         /\ state' = Load(Call("TrialObjects", <<h, 1, mc, mc'.trial>>), 1)
  /\ UNCHANGED <<call, it, sens, page>>

NextFrame ==
  \/ \E fn \in {"proformaAnnual", "flipResults", "brrrrResults"} : CallOnRecord(fn)
  \/ \E rentInput \in RentDeltaInputs, vacInput \in VacDeltaInputs, sizeInput \in {One, FromInt(2)} :
       RenderSensitivityOnRecord(rentInput, vacInput, sizeInput)
  \/ \E years \in 1..MaxYears, dist \in Distributions, exitMethod \in {"appreciation", "exitcap"} :
       MCStartOnRecord(years, dist, exitMethod)
  \/ \E z \in RandnDraws : MCTrialOnRecord(z)

SpecFrame == InitFrame /\ [][NextFrame]_vars

\* ------------------------------------------------------------------------
\* The page: the listeners of app.js, one event per step
\* ------------------------------------------------------------------------
MaxSteps == 4

LabelTexts == {"Parking"}

AmountTexts == {"", "80"}

RentTexts == {"", "3000"}

\* The files chosen for the import: an empty list, a list of one snapshot and
\* a text that is not an array
Files ==
  {<<>>, NotAnArray,
   <<[id |-> 0, snapshot |-> [rentMonthly |-> Num(500), otherIncomeLines |-> <<>>,
                              otherExpenseLines |-> <<>>]]>>}

InitPage ==
  /\ state = defaultState
  /\ call = NoCall
  /\ it = NoIrr
  /\ sens = NoTable
  /\ mc = NoRun
  /\ page \in {main(saved) : saved \in SavedDeals}

\* The page p a listener has left, after the event name
Handled(p, name) == [p EXCEPT !.steps = page.steps + 1, !.last = name]

\* The page as a listener finds it
Listening == [page EXCEPT !.thrown = FALSE]

AddLine(key) ==
  /\ page.steps < MaxSteps
  /\ page' = Handled(addLine(Listening, key, [label |-> "", amount |-> Num(0)]), "add")
  /\ UNCHANGED <<state, call, it, sens, mc>>

EditLine(key, r, part, text) ==
  /\ r \in 1..Len(page.rows[key])
  /\ page.steps < MaxSteps
  /\ page' = Handled(sync(Listening, key, r, part, text), "sync")
  /\ UNCHANGED <<state, call, it, sens, mc>>

RemoveLine(key, r) ==
  /\ r \in 1..Len(page.rows[key])
  /\ page.steps < MaxSteps
  /\ page' = Handled(removeLine(Listening, key, r), "remove")
  /\ UNCHANGED <<state, call, it, sens, mc>>

ClearLines(key) ==
  /\ page.steps < MaxSteps
  /\ page' = Handled(clearLines(Listening, key), "clear")
  /\ UNCHANGED <<state, call, it, sens, mc>>

EditField(text) ==
  /\ page.steps < MaxSteps
  /\ page' = Handled(fieldHandler(Listening, text), "field")
  /\ UNCHANGED <<state, call, it, sens, mc>>

SaveToPortfolio ==
  /\ page.steps < MaxSteps
  /\ page' = Handled(savePortfolioClick(Listening), "save")
  /\ UNCHANGED <<state, call, it, sens, mc>>

LoadSnapshot(k) ==
  /\ k \in 1..Len(page.lists[Len(page.lists)])
  /\ page.steps < MaxSteps
  /\ page' = Handled(loadSnapshot(Listening, page.lists[Len(page.lists)][k].id), "load")
  /\ UNCHANGED <<state, call, it, sens, mc>>

DeleteSnapshot(k) ==
  /\ k \in 1..Len(page.lists[Len(page.lists)])
  /\ page.steps < MaxSteps
  /\ page' = Handled(deleteSnapshot(Listening, page.lists[Len(page.lists)][k].id), "delete")
  /\ UNCHANGED <<state, call, it, sens, mc>>

ApplyImport(rent) ==
  /\ page.steps < MaxSteps
  /\ page' = Handled(applyPatch(Listening, rent), "import")
  /\ UNCHANGED <<state, call, it, sens, mc>>

\* The user changes an input of the Monte Carlo form, which has no listener
TypeMCForm(input, text) ==
  /\ page.mcForm[input] # text
  /\ page.steps < MaxSteps
  /\ page' = Handled([page EXCEPT !.mcForm[input] = text], "type")
  /\ UNCHANGED <<state, call, it, sens, mc>>

RunMC ==
  /\ page.steps < MaxSteps
  /\ page' = Handled(runMCClick(Listening), "runmc")
  /\ UNCHANGED <<state, call, it, sens, mc>>

TimerFires ==
  /\ page.timers # <<>>
  /\ page.steps < MaxSteps
  /\ page' = Handled(timerCallback(Listening), "timer")
  /\ UNCHANGED <<state, call, it, sens, mc>>

ExportPortfolio ==
  /\ page.steps < MaxSteps
  /\ page' = Handled(exportClick(Listening), "export")
  /\ UNCHANGED <<state, call, it, sens, mc>>

ImportPortfolio(file) ==
  /\ page.steps < MaxSteps
  /\ page' = Handled(fileChosen(Listening, file), "file")
  /\ UNCHANGED <<state, call, it, sens, mc>>

NextPage ==
  \/ \E key \in LineKeys : AddLine(key) \/ ClearLines(key)
  \/ \E key \in LineKeys, r \in 1..4 :
       \/ RemoveLine(key, r)
       \/ \E text \in LabelTexts : EditLine(key, r, "label", text)
       \/ \E text \in AmountTexts : EditLine(key, r, "amount", text)
  \/ \E text \in RentTexts : EditField(text)
  \/ SaveToPortfolio
  \/ \E k \in 1..2 : LoadSnapshot(k) \/ DeleteSnapshot(k)
  \/ ApplyImport(500)
  \/ TypeMCForm("runs", "500") \/ TypeMCForm("exitMethod", "exitcap")
  \/ TypeMCForm("rent", <<"4">>)
  \/ RunMC
  \/ TimerFires
  \/ ExportPortfolio
  \/ \E file \in Files : ImportPortfolio(file)

SpecPage == InitPage /\ [][NextPage]_vars


\* ------------------------------------------------------------------------
\* Properties
\* ------------------------------------------------------------------------
\* downPaymentPct / 100 clamped into [0, 1], by cases
DownPaymentFraction(st) ==
  IF Le(n(st.downPaymentPct), Zero) THEN Zero
  ELSE IF Ge(n(st.downPaymentPct), FromInt(100)) THEN One
  ELSE Div(n(st.downPaymentPct), FromInt(100))

\* C1: computeLoanAmount returns an explicit finite loanAmount exactly, whatever
\* purchasePrice and downPaymentPct are; with loanAmount null it returns
\* purchasePrice * (1 - d), d being downPaymentPct / 100 clamped into [0, 1]
C1_LoanAmount ==
  call.fn = "computeLoanAmount" =>
    LET st == call.args[1]
    IN  /\ st.loanAmount # Null /\ IsFinite(st.loanAmount) => call.ret = st.loanAmount
        /\ st.loanAmount = Null =>
             call.ret = Mul(n(st.purchasePrice), Sub(One, DownPaymentFraction(st)))

\* An explicit amount of 200000 is returned for a purchase of 350000
C1_ExplicitReturned ==
  /\ call.fn = "computeLoanAmount"
  /\ call.args[1].loanAmount = FromInt(200000)
  /\ call.args[1].purchasePrice = FromInt(350000)
  /\ call.ret = FromInt(200000)

\* round(12 * termYears), the number of months of a term
MonthsOf(term) == IntOf(Round(Mul(n(term), FromInt(12))))

\* C2 as the specification states it: with a rate of exactly 0, for every
\* principal P >= 0 and every term n, monthlyPayment(P, 0, n) is P / (12 n)
C2_ZeroRateAnyTerm ==
  call.fn = "monthlyPayment" /\ Ge(call.args[1], Zero) /\ call.args[2] = Zero =>
    call.ret = Div(call.args[1], Mul(FromInt(12), call.args[3]))

\* C2: with a rate of exactly 0 and a principal P >= 0, monthlyPayment is
\* P / N for N = round(12 n) when P > 0 and N >= 1, which is P / (12 n) when
\* 12 n is a whole number, and it is 0 when P = 0 or N <= 0
C2_ZeroRatePayment ==
  call.fn = "monthlyPayment" /\ Ge(call.args[1], Zero) /\ call.args[2] = Zero =>
    LET P  == call.args[1]
        NN == MonthsOf(call.args[3])
    IN  IF Gt(P, Zero) /\ NN >= 1
          THEN /\ call.ret = Div(P, FromInt(NN))
               /\ Mul(FromInt(12), call.args[3]) = FromInt(NN) =>
                    call.ret = Div(P, Mul(FromInt(12), call.args[3]))
          ELSE call.ret = Zero

\* 1000 over half a year at no interest is 1000 / 6 a month
C2_HalfYear ==
  /\ call.fn = "monthlyPayment"
  /\ call.args = <<FromInt(1000), Zero, Dec(5, 1)>>
  /\ call.ret = Div(FromInt(1000), FromInt(6))

\* C3: for every principal, rate and term, amortSchedule has at most
\* N = round(12 * termYears) rows, and the balance of the last row of a
\* non-empty schedule is at most 0.005
C3_RowsAndFinalBalance ==
  call.fn = "amortSchedule" =>
    /\ Len(call.ret) <= MaxI(MonthsOf(call.args[3]), 0)
    /\ Len(call.ret) > 0 => Le(call.ret[Len(call.ret)].balance, BalanceEps)

\* The sum of the principal portions of rows lo..hi
RECURSIVE SumPrincipal(_, _, _)
SumPrincipal(rows, lo, hi) ==
  IF lo > hi THEN Zero
  ELSE IF lo = hi THEN rows[lo].principal
  ELSE Add(SumPrincipal(rows, lo, (lo + hi) \div 2),
           SumPrincipal(rows, (lo + hi) \div 2 + 1, hi))

\* C4: the principal portions of every schedule sum to the initial principal,
\* to within a cent
C4_PrincipalSumAnySchedule ==
  call.fn = "amortSchedule" =>
    Le(Abs(Sub(SumPrincipal(call.ret, 1, Len(call.ret)), n(call.args[1]))), Dec(1, 2))

\* C5: when there is no loan or the term is not positive the annual debt
\* service is zero, and whenever it is zero proformaAnnual has dscr = 0 and
\* cashflow = noi
C5_NoDebtService ==
  call.fn = "proformaAnnual" =>
    /\ Le(computeLoanAmount(call.args[1]), Zero) \/ Le(n(call.args[1].termYears), Zero)
         => call.ret.ds = Zero
    /\ call.ret.ds = Zero => call.ret.dscr = Zero /\ call.ret.cashflow = call.ret.noi

\* A loan of 200000 with a term of 0 years: no debt service, and an income
C5_ZeroTerm ==
  /\ call.fn = "proformaAnnual"
  /\ call.args[1].loanAmount = FromInt(200000)
  /\ call.args[1].termYears = Zero
  /\ call.ret.ds = Zero
  /\ call.ret.dscr = Zero
  /\ Gt(call.ret.noi, Zero)
  /\ call.ret.cashflow = call.ret.noi

\* C6: over a non-empty ascending sequence s, quantile(s, 0) is the first
\* element, quantile(s, 1) the last, and quantile(s, q1) <= quantile(s, q2)
\* for all q1 <= q2 in [0, 1]
C6_QuantileEndsAndOrder ==
  call.fn = "quantile" /\ Len(call.args[1]) > 0 =>
    LET s == call.args[1]
        q == call.args[2]
    IN  /\ q = Zero => call.ret = s[1]
        /\ q = One => call.ret = s[Len(s)]
        /\ \A q2 \in Quantiles : Le(q, q2) => Le(call.ret, quantile(s, q2))

\* The rate irr returned is within 0.000001 of the rate the sequence was
\* built from
Recovered == IsFinite(it.st.ret) /\ Le(Abs(Sub(it.st.ret, it.rstar)), Dec(1, 6))

C8_NaNOrRoot ==
  it.st.pc = "done" =>
    \/ IsNaN(it.st.ret)
    \/ IsFinite(it.st.ret) /\ Le(Abs(npv(it.cf, it.st.ret)), Dec(1, 2))

\* pct(coc * 100) of the deal as it is
BaselineCell == pct(Mul(Call("proformaAnnual", <<state>>).coc, FromInt(100)))

\* C9: for every deal and every odd size, the cell of the sensitivity table
\* at row = column = floor(size / 2) is the cash-on-cash of proformaAnnual on
\* the deal as it is
C9_CenterCell ==
  sens # NoTable /\ sens.size % 2 = 1 =>
    sens.cells[(sens.size - 1) \div 2 + 1][(sens.size - 1) \div 2 + 1] = BaselineCell

\* A table of size 3 whose middle cell is the baseline and whose corner cell
\* is not
C9_SizeThree ==
  /\ sens.size = 3
  /\ sens.cells[2][2] = BaselineCell
  /\ sens.cells[1][1] # BaselineCell

\* Every distribution of the run has a standard deviation of 0
ZeroSpread ==
  /\ mc.dist.rent.std = Zero
  /\ mc.dist.exp.std = Zero
  /\ mc.dist.appr.std = Zero
  /\ mc.dist.vac.std = Zero

\* C10: with a standard deviation of 0 for rent growth, expense growth,
\* appreciation and vacancy, every trial has the same IRR and the same net
\* sale proceeds whatever the draws are, and p10, p50 and p90 are equal for
\* the IRR and equal for the proceeds
C10_ZeroSpreadCollapses ==
  mc.pc = "done" /\ ZeroSpread =>
    /\ \A i \in 1..Len(mc.irrList) : mc.irrList[i] = mc.irrList[1]
    /\ \A i \in 1..Len(mc.endEquityList) : mc.endEquityList[i] = mc.endEquityList[1]
    /\ mc.res.irr_p10 = mc.res.irr_p50 /\ mc.res.irr_p50 = mc.res.irr_p90
    /\ mc.res.eq_p10 = mc.res.eq_p50 /\ mc.res.eq_p50 = mc.res.eq_p90

\* The number of elements of list that are x
Count(list, x) == Cardinality({i \in 1..Len(list) : list[i] = x})

\* a and b hold the same values, each as often
SameBag(a, b) ==
  /\ Len(a) = Len(b)
  /\ \A i \in 1..Len(a) : Count(a, a[i]) = Count(b, a[i])

\* C11: every trial adds its net sale proceeds to the proceeds sample, and
\* its IRR to the IRR sample exactly when that IRR is finite, so that after
\* R trials the proceeds sample has R values and the IRR sample has the
\* finite IRRs only
C11_Samples ==
  /\ [](mc.pc \in {"trial", "done"} => Len(mc.endEquityList) = mc.i)
  /\ [](mc.pc = "done" => mc.i = mc.runs)
  /\ [][mc.pc = "trial" =>
         /\ mc'.i = mc.i + 1
         /\ SameBag(mc'.endEquityList, Append(mc.endEquityList, mc'.trial.netSale))
         /\ SameBag(mc'.irrList,
                    IF IsFinite(mc'.trial.r) THEN Append(mc.irrList, mc'.trial.r)
                    ELSE mc.irrList)]_vars

\* A run of three trials of which one or two had no finite IRR: three
\* proceeds and fewer IRRs
C11_UnresolvedTrial ==
  /\ mc.pc = "done"
  /\ mc.runs = 3
  /\ Len(mc.endEquityList) = 3
  /\ Len(mc.irrList) \in {1, 2}
  /\ \A i \in 1..Len(mc.irrList) : IsFinite(mc.irrList[i])

\* C13: on the default deal (350000 at 25 % down, 6.75 % over 30 years, rent
\* 2800, vacancy 5 %, taxes 3600, insurance 1200, buckets 8/5/5 %, no lines)
\* proformaAnnual gives NOI = 21072 and cashflow = NOI - 12 * monthlyPayment(262500, 6.75, 30)
C13_DefaultScenario ==
  call.fn = "proformaAnnual" /\ call.args[1] = defaultState =>
    /\ call.ret.noi = FromInt(21072)
    /\ Gt(call.ret.noi, Zero)
    /\ call.ret.cashflow =
         Sub(FromInt(21072),
             Mul(monthlyPayment(FromInt(262500), Dec(675, 2), FromInt(30)), FromInt(12)))

\* The pro forma of the default deal, with a cash flow between 641 and 642
C13_DefaultProforma ==
  /\ call.fn = "proformaAnnual"
  /\ call.args[1] = defaultState
  /\ call.ret.noi = FromInt(21072)
  /\ Gt(call.ret.cashflow, FromInt(641)) /\ Lt(call.ret.cashflow, FromInt(642))

\* 1 + 10^-9, the slack of a comparison that allows for rounding
Slack == Add(One, Dec(1, 9))

\* C14: monthlyPayment is 0 whenever the principal or the term is <= 0, and
\* for a positive principal P, a positive term and a non-zero rate it is the
\* annuity value P r (1 + r)^n / ((1 + r)^n - 1), n = round(12 * termYears);
\* for r > 0 that value is finite and lies between max(P / n, P r) and
\* P / n + P r
C14_DegenerateAndAnnuity ==
  call.fn = "monthlyPayment" =>
    LET P  == call.args[1]
        r  == MonthlyRate(call.args[2])
        lo == Max(Div(P, FromInt(MonthsOf(call.args[3]))), Mul(P, r))
        hi == Add(Div(P, FromInt(MonthsOf(call.args[3]))), Mul(P, r))
    IN  /\ Le(P, Zero) \/ Le(call.args[3], Zero) => call.ret = Zero
        /\ Gt(P, Zero) /\ Gt(call.args[3], Zero) /\ Gt(call.args[2], Zero) =>
             /\ IsFinite(call.ret)
             /\ Ge(Mul(call.ret, Slack), lo)
             /\ Le(call.ret, Mul(hi, Slack))

\* num / den, or 0 when den <= 0
OverPositive(num, den) == IF Le(den, Zero) THEN Zero ELSE Div(num, den)

\* num / den when den > 0, and 0 otherwise: den <= 0 or den not a number
WhenPositive(num, den) == IF Gt(den, Zero) THEN Div(num, den) ELSE Zero

C16_EmptyIrrSet ==
  mc.pc = "done" /\ Len(mc.irrList) = 0 =>
    /\ IsNaN(mc.res.irr_p10) /\ IsNaN(mc.res.irr_p50) /\ IsNaN(mc.res.irr_p90)
    /\ IsNaN(mc.res.irr_mean)

\* sellingCostPct / 100 within [0, 0.25]
SellingCostFraction(st) == clamp(Div(n(st.sellingCostPct), FromInt(100)), Zero, Dec(25, 2))

\* C17: in every trial the net sale proceeds are salePrice * (1 - s) -
\* outstanding balance, s being sellingCostPct / 100 clamped into [0, 0.25];
\* with sellingCostPct = 0 they are salePrice - outstanding balance
C17_NetSaleProceeds ==
  mc.i >= 1 =>
    mc.trial.netSale =
      Sub(Mul(mc.trial.salePrice, Sub(One, SellingCostFraction(state))), mc.trial.payoffBal)

\* exitCapRate / 100 within [0.01, 0.25]
ExitCapFraction(st) == clamp(Div(n(st.exitCapRate), FromInt(100)), Dec(1, 2), Dec(25, 2))

\* C18: with the exit method "exitcap" the sale price of a trial is the NOI
\* of the pro forma of the last projection year divided by exitCapRate / 100
\* clamped into [0.01, 0.25], so that a rate of 0 divides by 0.01; with any
\* other method it is purchasePrice * (1 + appreciation sample)^horizon
C18_SalePrice ==
  mc.i >= 1 =>
    mc.trial.salePrice =
      IF mc.exitMethod = "exitcap"
        THEN Div(Call("proformaAnnual",
                      <<ProjectedDeal(state, Pow(Add(One, mc.trial.rentG), mc.years - 1),
                                      Pow(Add(One, mc.trial.expG), mc.years - 1),
                                      mc.trial.vac)>>).noi,
                 ExitCapFraction(state))
        ELSE Mul(n(state.purchasePrice), Pow(Add(One, mc.trial.appr), mc.years))

\* NOI minus debt service of projection year y of the last trial
YearCashflow(y) ==
  LET pf == Call("proformaAnnual",
                 <<ProjectedDeal(state, Pow(Add(One, mc.trial.rentG), y - 1),
                                 Pow(Add(One, mc.trial.expG), y - 1), mc.trial.vac)>>)
  IN  Sub(pf.noi, pf.ds)

\* C19: the sequence a trial passes to irr has horizon + 1 elements: element
\* 0 is -totalCashInvested, element y below the horizon is the NOI minus the
\* debt service of year y, and the last element is that of the last year
\* plus the net sale proceeds
C19_CashflowShape ==
  mc.i >= 1 =>
    /\ Len(mc.trial.cashflows) = mc.years + 1
    /\ mc.trial.cashflows[1] = Neg(totalCashInvested(state))
    /\ \A y \in 1..(mc.years - 1) : mc.trial.cashflows[y + 1] = YearCashflow(y)
    /\ mc.trial.cashflows[mc.years + 1] = Add(YearCashflow(mc.years), mc.trial.netSale)

\* A trial over two years on the default deal: -95500, the cash flow of year
\* 1 and a last element above the net sale proceeds
C19_TwoYears ==
  /\ mc.i >= 1
  /\ mc.years = 2
  /\ state = defaultState
  /\ mc.trial.cashflows[1] = FromInt(-95500)
  /\ Len(mc.trial.cashflows) = 3
  /\ Gt(mc.trial.cashflows[2], Zero)
  /\ Gt(mc.trial.cashflows[3], mc.trial.netSale)

\* The schedule of the deal's loan, as runMonteCarlo builds it
ScheduleOfDeal ==
  Call("amortSchedule", <<computeLoanAmount(state), state.interestRate, state.termYears>>)

\* The row the payoff balance is read from, for a schedule that has rows
PayoffRow == IF Len(ScheduleOfDeal) >= mc.years * 12 THEN mc.years * 12 ELSE Len(ScheduleOfDeal)

\* C20 as stated: the payoff balance of every trial is the balance of row
\* horizon x 12, or of the final row of a shorter schedule, and it is never
\* negative and never larger than the loan amount
C20_PayoffWithinLoan ==
  mc.i >= 1 =>
    /\ Len(ScheduleOfDeal) >= 1 => mc.trial.payoffBal = ScheduleOfDeal[PayoffRow].balance
    /\ ~Lt(mc.trial.payoffBal, Zero)
    /\ ~Gt(mc.trial.payoffBal, computeLoanAmount(state))

\* C20: the payoff balance of every trial is the balance of row horizon x 12,
\* or of the final row of a shorter schedule, or 0 for a schedule without
\* rows; it is never negative, and never larger than a loan amount that is
\* not negative
C20_PayoffBalance ==
  mc.i >= 1 =>
    /\ mc.trial.payoffBal = IF Len(ScheduleOfDeal) >= 1 THEN ScheduleOfDeal[PayoffRow].balance
                            ELSE Zero
    /\ ~Lt(mc.trial.payoffBal, Zero)
    /\ ~Lt(computeLoanAmount(state), Zero) => ~Gt(mc.trial.payoffBal, computeLoanAmount(state))

\* A horizon of two years on a loan of one year: the schedule has 12 rows and
\* the payoff balance is that of row 12; and on a loan of 30 years it is that
\* of row 24, below the loan amount
C20_PastTheTerm ==
  /\ mc.i >= 1
  /\ mc.years = 2
  /\ \/ /\ state.termYears = One
        /\ Len(ScheduleOfDeal) = 12
        /\ mc.trial.payoffBal = ScheduleOfDeal[12].balance
        /\ Le(mc.trial.payoffBal, BalanceEps)
     \/ /\ state = defaultState
        /\ Len(ScheduleOfDeal) = 360
        /\ mc.trial.payoffBal = ScheduleOfDeal[24].balance
        /\ Gt(mc.trial.payoffBal, FromInt(250000))
        /\ Lt(mc.trial.payoffBal, FromInt(262500))

\* C12: no step of the engine changes the deal record: after proformaAnnual,
\* flipResults, brrrrResults, renderSensitivity and every trial of
\* runMonteCarlo every field and every line of both lists is as before
C12_RecordUnchanged == [][state' = state]_vars

\* A trial over two years with growing rents has run on a deal with lines in
\* both lists, and the lines are those the deal started with
C12_TrialOnLines ==
  /\ mc.i >= 1
  /\ mc.years = 2
  /\ Gt(mc.trial.rentG, Zero)
  /\ Gt(mc.trial.expG, Zero)
  /\ Len(state.otherIncomeLines) = 2
  /\ state.otherIncomeLines[2].amount = Dec(125, 1)
  /\ state.otherExpenseLines = <<[label |-> "Lawn care", amount |-> FromInt(80)]>>
  /\ Gt(mc.base.otherExp, Zero)

\* The product of the net present values at the ends of the interval is
\* negative or zero
OppositeEnds(st) == Le(Mul(st.flo, st.fhi), Zero)

\* C21: irr makes at most maxIter Newton iterations and then at most
\* bisectIter bisection iterations; the bisection starts only from the
\* bracket test, which the Newton loop reaches without a result; a bracket
\* with net present values of the same strict sign gives NaN; a result of
\* the bisection lies in [-0.95, 5], and the ends of its interval always
\* have net present values of opposite sign or zero
C21_ControlFlow ==
  /\ [](/\ it.st.pc = "newton" => it.st.i <= maxIter
        /\ it.st.pc = "bisect" => it.st.i <= bisectIter /\ OppositeEnds(it.st))
  /\ [][/\ it'.st.pc = "bisect" => it.st.pc \in {"bracket", "bisect"}
        /\ it'.st.pc = "bracket" => it.st.pc = "newton"
        /\ it.st.pc = "bracket" /\ Gt(Mul(npv(it.cf, BisectLo), npv(it.cf, BisectHi)), Zero)
             => it'.st.pc = "done" /\ IsNaN(it'.st.ret)
        /\ it.st.pc = "bisect" /\ it'.st.pc = "done"
             => Ge(it'.st.ret, BisectLo) /\ Le(it'.st.ret, BisectHi)]_vars

\* The balance before row i of a schedule: the initial principal before the
\* first row, the balance of the row before it otherwise
PreviousBalance(rows, P0, i) == IF i = 1 THEN P0 ELSE rows[i - 1].balance

\* C22: in every row of every schedule the interest is the previous balance
\* times the monthly rate, the principal is max(0, payment - interest) and the
\* balance is max(0, previous balance - principal), the previous balance of
\* the first row being the initial principal; no balance is negative and no
\* balance is above the balance of the row before it
C22_RowRecurrence ==
  call.fn = "amortSchedule" =>
    \A i \in 1..Len(call.ret) :
      LET row  == call.ret[i]
          prev == PreviousBalance(call.ret, n(call.args[1]), i)
      IN  /\ row.interest = Mul(prev, MonthlyRate(call.args[2]))
          /\ row.principal = Max(Zero, Sub(row.payment, row.interest))
          /\ row.balance = Max(Zero, Sub(prev, row.principal))
          /\ ~Lt(row.balance, Zero)
          /\ i > 1 => ~Gt(row.balance, prev)

\* A schedule of several rows with a payment below the interest of a row, of
\* which nothing is recorded as principal
C22_PaymentBelowInterest ==
  /\ call.fn = "amortSchedule"
  /\ Len(call.ret) > 1
  /\ \E i \in 1..Len(call.ret) :
       /\ Lt(call.ret[i].payment, call.ret[i].interest)
       /\ call.ret[i].principal = Zero

\* C23: the rows of every schedule carry the months 1, 2, ... in order, there
\* are at most N = round(12 * termYears) of them, every row before the last
\* has a balance above 0.005, and a schedule of fewer than N rows ends with a
\* balance of at most 0.005
C23_RowsUntilPaidOff ==
  call.fn = "amortSchedule" =>
    /\ Len(call.ret) <= MaxI(MonthsOf(call.args[3]), 0)
    /\ \A i \in 1..Len(call.ret) :
         /\ call.ret[i].month = i
         /\ i < Len(call.ret) => Gt(call.ret[i].balance, BalanceEps)
    /\ 0 < Len(call.ret) /\ Len(call.ret) < MonthsOf(call.args[3])
         => Le(call.ret[Len(call.ret)].balance, BalanceEps)

\* The value of a percent-of-income bucket on income G: the percentage as a
\* fraction, 0 when it is below 0 and 0.9 when it is above 90
BucketOf(G, percent) ==
  IF Lt(n(percent), Zero) THEN Mul(G, Zero)
  ELSE IF Gt(n(percent), FromInt(90)) THEN Mul(G, Dec(9, 1))
  ELSE Mul(G, Div(n(percent), FromInt(100)))

\* C24: in every pro forma with a gross scheduled income G >= 0 each of
\* vacancy, management, maintenance and capex is the bucket of its own
\* percentage and lies between 0 and 0.9 G, whatever the other three are;
\* egi = G - vacancy, opex is the sum of the expense items, noi = egi - opex
\* and cashflow = noi - ds
C24_PercentBuckets ==
  call.fn = "proformaAnnual" /\ Ge(call.ret.gsi, Zero) =>
    LET p == call.ret
        st == call.args[1]
    IN  /\ p.vacancy = BucketOf(p.gsi, st.vacancyPct)
        /\ p.mgmt = BucketOf(p.gsi, st.managementPct)
        /\ p.maint = BucketOf(p.gsi, st.maintenancePct)
        /\ p.capex = BucketOf(p.gsi, st.capexPct)
        /\ \A b \in {p.vacancy, p.mgmt, p.maint, p.capex} :
             Ge(b, Zero) /\ Le(b, Mul(p.gsi, Dec(9, 1)))
        /\ p.egi = Sub(p.gsi, p.vacancy)
        /\ p.opex = Add(Add(Add(Add(Add(Add(Add(p.taxes, p.ins), p.hoa), p.util), p.mgmt),
                                p.maint), p.capex), p.otherExp)
        /\ p.noi = Sub(p.egi, p.opex)
        /\ p.cashflow = Sub(p.noi, p.ds)

\* A pro forma with the four buckets at 0.9 G each and a negative NOI
C24_NegativeNoi ==
  /\ call.fn = "proformaAnnual"
  /\ Gt(call.ret.gsi, Zero)
  /\ \A b \in {call.ret.vacancy, call.ret.mgmt, call.ret.maint, call.ret.capex} :
       b = Mul(call.ret.gsi, Dec(9, 1))
  /\ Lt(call.ret.noi, Zero)

\* C25: quantile of an empty sequence is NaN; otherwise, with p = q (n - 1),
\* i = floor(p) and f = p - i, it is s[i] when i is the last index and
\* s[i] (1 - f) + s[i + 1] f when it is not, a value between s[i] and
\* s[i + 1] (indices from 0)
C25_Interpolation ==
  call.fn = "quantile" =>
    LET s == call.args[1]
        p == Mul(FromInt(Len(s) - 1), call.args[2])
        i == IntOf(Floor(p))
        f == Sub(p, Floor(p))
    IN  IF Len(s) = 0 THEN IsNaN(call.ret)
        ELSE IF i + 1 >= Len(s) THEN call.ret = s[i + 1]
        ELSE /\ call.ret = Add(Mul(s[i + 1], Sub(One, f)), Mul(s[i + 2], f))
             /\ Ge(call.ret, s[i + 1])
             /\ Le(call.ret, s[i + 2])

\* 12 monthly payments on the loan, the rate and the term of the deal
BaseDebtService ==
  Mul(Call("monthlyPayment",
           <<computeLoanAmount(state), n(state.interestRate), n(state.termYears)>>),
      FromInt(12))

\* The pro forma of projection year y of the last trial
TrialYear(y) ==
  Call("proformaAnnual",
       <<ProjectedDeal(state, Pow(Add(One, mc.trial.rentG), y - 1),
                       Pow(Add(One, mc.trial.expG), y - 1), mc.trial.vac)>>)

\* C26: in every projection year of every trial the debt service is 12
\* monthly payments on the loan, the rate and the term of the base deal,
\* whatever was sampled, and the cash flow of the year is the NOI of the year
\* minus that amount
C26_ConstantDebtService ==
  mc.i >= 1 =>
    \A y \in 1..mc.years :
      /\ TrialYear(y).ds = BaseDebtService
      /\ mc.trial.cashflows[y + 1] =
           IF y < mc.years THEN Sub(TrialYear(y).noi, BaseDebtService)
           ELSE Add(Sub(TrialYear(y).noi, BaseDebtService), mc.trial.netSale)

\* A trial over two years with a sampled rent growth, an NOI that differs
\* between the years and a positive debt service
C26_GrowingRent ==
  /\ mc.i >= 1
  /\ mc.years = 2
  /\ mc.trial.rentG # Zero
  /\ TrialYear(1).noi # TrialYear(2).noi
  /\ Gt(BaseDebtService, Zero)

\* The entry of a list that a row of the form stands for
EntryOfRow(row) == [label |-> row.label, amount |-> Num(NumberOfText(row.amount))]

\* C27: after the first rendering and after every line operation each of the
\* two lists of the deal has one entry for each row of the form, in the order
\* of the rows, with the label and the amount of the row
C27_LinesInStep ==
  \A key \in LineKeys :
    IF Len(LiveLines(page, key)) # Len(page.rows[key]) THEN FALSE
    ELSE \A r \in 1..Len(page.rows[key]) :
           LiveLines(page, key)[r] = EntryOfRow(page.rows[key][r])

\* The value a text of the rent input stands for
ValueOfField(text) == IF text = "" THEN NullValue ELSE Num(NumberOfText(text))

\* C28: after every edit of a field the deal the application works on, and
\* the deal it has saved, hold the value of the field, also after a snapshot
\* was loaded and after an import was applied
C28_FieldEditReachesState ==
  page.last = "field" =>
    /\ page.objs[page.live].rentMonthly = ValueOfField(page.field)
    /\ page.saved.rentMonthly = ValueOfField(page.field)

\* C29: the run the timer starts gets the deal, the number of runs, the
\* horizon, the distributions and the exit method of the moment of the click
C29_RunAsClicked ==
  page.last = "timer" =>
    /\ page.ran.deal = page.ran.clicked.deal
    /\ page.ran.runs = MinI(50000, MaxI(100, NumberOfTextOr(page.ran.clicked.form.runs, 3000)))
    /\ page.ran.years = MinI(50, MaxI(1, NumberOfTextOr(page.ran.clicked.form.years, 10)))
    /\ page.ran.dist.rent = parseMeanStd(page.ran.clicked.form.rent)
    /\ page.ran.exitMethod = page.ran.clicked.form.exitMethod

\* C30: one click on the export button downloads the stored portfolio, once,
\* and a chosen file is read by one listener, whatever portfolio operations
\* came before
C30_OneExportOneImport ==
  /\ page.last = "export" => page.downloads = <<page.stored>>
  /\ page.last = "file" => page.processed = 1

====
